---- MODULE Spec2Model ----
(***************************************************************************)
(* A model of the report parser of stpierre/crashes                        *)
(* (src/crashes/commands/parse.py): the multi-process pipeline of the      *)
(* Parse command (Spec) and the per-document field extraction of Parser    *)
(* (SpecParser).                                                           *)
(***************************************************************************)
EXTENDS Integers, Sequences, FiniteSets, TLC

\* ------------------------------------------------------------------ bounds
\* Number of distinct file paths _build_filelist returns.
NumFiles == 4
\* Length of the file list of the load run (SpecLoad).
LoadFiles == 8
\* Largest value of the --processes option.
MaxProcs == 2
\* The --processes option of the load run.
LoadProcs == 3

\* Pages a document yields at most.
MaxPages == 2
\* Objects a page yields at most.
MaxObjects == 2

\* ------------------------------------------------------- program constants
\* Parse.result_batch_size
result_batch_size == 30
\* default of the interval parameter of Parse._handle_results, in seconds
DefaultInterval == 15

None == "None"

VARIABLES
    \* ---- Parse (the orchestrator process)
    options,        \* options.processes, options.interactive
    filelist,       \* the list _build_filelist returned
    docs,           \* per path: how the layout provider treats the document
    opc,            \* where the orchestrator is in __call__ / run_multiprocess
    work_queue,     \* self._work_queue: file paths not yet taken
    result_queue,   \* self._result_queue: records pushed and not yet drained
    terminate,      \* self._terminate (multiprocessing.Event)
    processes,      \* self._processes, a list of workers
    pidx,           \* position of the for loop of _tend_processes in that list
                    \* (0 outside the loop)
    fidx,           \* position of the for loop of run_foreground in the file list
    results,        \* local 'results' of the running _handle_results
    elapsed,        \* time.time() - start of the running _handle_results:
                    \* 0, or DefaultInterval once that much time has passed
    error,          \* local 'error' of _tend_processes
    status,         \* value returned by run_multiprocess / run_foreground
    max_len,        \* max_result_queue_length handed to the children
    \* ---- ParseChildProcess (one per worker)
    wpc,            \* where each worker is in run()
    wpath,          \* the fpath a worker holds while it parses (0: none)
    \* ---- bookkeeping of what happened (read by no action)
    dequeued,       \* per path: how often it was taken from the work queue
    pushed,         \* per path: how many records were put on the result queue
    handed,         \* per path: how many records reached _store_one_result
    interrupted,    \* where a KeyboardInterrupt/SystemExit was raised so far:
                    \* a subset of {"orchestrator", "worker"}
    faulted,        \* a worker died of an uncaught exception
    woke,           \* workers that left their backpressure pause with the
                    \* flag set and have not yet called get_nowait
    \* ---- db.collisions and its files
    collisions      \* the record store: data, by_key, sync, needs_write,
                    \* files

VARIABLES
    \* ---- Parser (one instance parsing one document)
    pcls,           \* class of the instance: "Parser" or "ParseChildProcess"
    layout,         \* self.layout: objects, skip, start_index, start_y
    ppc,            \* where parse() / _parse_pdf is
    data,           \* the record _parse_pdf builds
    page_types,     \* local page_types of _parse_pdf
    page,           \* the page being iterated: its name (None between pages)
    npages,         \* pages the document has yielded so far
    seen,           \* the objects lists of those pages, as far as
                    \* PDFPage.factory reads them
    nobjs,          \* objects of the current page consumed so far
    result,         \* what parse() returned (None until then, or for None)
    \* ---- bookkeeping of what happened (read by no action)
    prompts,        \* how often a human was asked (input())
    provider,       \* "ok", or how the layout provider failed
    last            \* the last object handed to _parse_pdfobj and what became
                    \* of it

pipeVars == <<options, filelist, docs, opc, work_queue, result_queue, terminate, processes,
              pidx, fidx, results, elapsed, error, status, max_len, wpc,
              wpath, dequeued, pushed, handed, interrupted, faulted, woke,
              collisions>>

VARIABLES
    \* ---- one call of a function of the program on its own
    call,           \* the function (None before a call) and its arguments
    ret             \* what it returned or raised

parserVars == <<pcls, layout, ppc, data, page_types, page, npages, seen,
                nobjs, result, prompts, provider, last>>

callVars == <<call, ret>>

vars == <<pipeVars, parserVars, callVars>>

Paths == 1..NumFiles
Min(a, b) == IF a < b THEN a ELSE b

Max(a, b) == IF a > b THEN a ELSE b

Workers == 1..Max(MaxProcs, LoadProcs)


RECURSIVE SeqOfRange(_, _)
SeqOfRange(a, b) == IF a > b THEN <<>> ELSE <<a>> \o SeqOfRange(a + 1, b)

RemoveAt(s, i) == [j \in 1..(Len(s) - 1) |-> IF j < i THEN s[j] ELSE s[j + 1]]

\* Parse.__call__, lines 505-515: which runner handles the file list.
Runner(opts, files) ==
    IF opts.interactive THEN "foreground"
    ELSE IF Min(Len(files), opts.processes) < 2 THEN "foreground"
    ELSE "multiprocess"

\* What Parser.parse does with one document, by the way the layout
\* provider treats it (see SpecParser for the document-level model):
\*   "record"  _parse_pdf returns a record (also the minimal record of an
\*             IOError at open time);
\*   "none"    a psparser.PSException escapes _parse_pdf, parse returns None;
\*   "raise"   any other exception escapes parse.
ParseOutcomes == {"record", "none", "raise"}

\* The corpora of the model: every document parses to a record, except
\* that the second one may be one the layout provider rejects.
Corpora == {[p \in Paths |-> IF p = 2 THEN k ELSE "record"] : k \in ParseOutcomes}

\* multiprocessing.Process.is_alive
is_alive(w) == wpc[w] \notin {"idle", "exited", "dead"}

\* ================================================================ geometry
\* Lengths are in tenths of a document unit: the fuzz 0.1 of the calls at
\* lines 664 and 676 is 1.
Fuzz == 1

\* Coordinates.__init__ (312-316)
Coordinates(x0, y0, x1, y1) ==
    [xmin |-> Min(x0, x1), xmax |-> Max(x0, x1),
     ymin |-> Min(y0, y1), ymax |-> Max(y0, y1)]

\* Coordinates(*seq), as in Coordinates(*pdfobj.bbox)
CoordinatesOf(seq) == Coordinates(seq[1], seq[2], seq[3], seq[4])

\* Coordinates.to_list (329-330)
to_list(c) == <<c.xmin, c.xmax, c.ymin, c.ymax>>

\* Containment with the tolerance left out.
contains_exact(self, other, fuzz) ==
    /\ other.ymax <= self.ymax
    /\ other.ymin >= self.ymin
    /\ other.xmax <= self.xmax
    /\ other.xmin >= self.xmin

\* Containment that leaves out what touches the bounds.
contains_strict(self, other, fuzz) ==
    /\ other.ymax - fuzz < self.ymax
    /\ other.ymin + fuzz > self.ymin
    /\ other.xmax - fuzz < self.xmax
    /\ other.xmin + fuzz > self.xmin

\* Coordinates.contains (332-337)
contains(self, other, fuzz) ==
    /\ other.ymax - fuzz <= self.ymax
    /\ other.ymin + fuzz >= self.ymin
    /\ other.xmax - fuzz <= self.xmax
    /\ other.xmin + fuzz >= self.xmin

\* Coordinates.merge (344-349): the four bounds go to the constructor in
\* the order xmin, xmax, ymin, ymax, where it takes x0, y0, x1, y1.
merge(self, other) ==
    Coordinates(Min(self.xmin, other.xmin), Max(self.xmax, other.xmax),
                Min(self.ymin, other.ymin), Max(self.ymax, other.ymax))

\* ============================================================== converters
\* Text is a sequence of one-character strings.
Digits == <<"0", "1", "2", "3", "4", "5", "6", "7", "8", "9">>

IsDigit(c) == \E d \in 1..10 : Digits[d] = c

DigitValue(c) == (CHOOSE d \in 1..10 : Digits[d] = c) - 1

RECURSIVE strip(_)
\* str.strip() for the blank
strip(t) ==
    IF t = <<>> THEN t
    ELSE IF Head(t) = " " THEN strip(Tail(t))
    ELSE IF t[Len(t)] = " " THEN strip(SubSeq(t, 1, Len(t) - 1))
    ELSE t

RECURSIVE NumberOf(_)
NumberOf(t) ==
    IF t = <<>> THEN 0
    ELSE NumberOf(SubSeq(t, 1, Len(t) - 1)) * 10 + DigitValue(t[Len(t)])

AllDigits(t) == t # <<>> /\ \A i \in 1..Len(t) : IsDigit(t[i])

\* The decimal digits of a natural number.
RECURSIVE str(_)
str(n) == IF n < 10 THEN <<Digits[n + 1]>>
          ELSE str(n \div 10) \o <<Digits[(n % 10) + 1]>>

\* "%02d" % n
TwoDigits(n) == IF n < 10 THEN <<"0">> \o str(n) ELSE str(n)

\* What a call gives: a value, or an exception.
Returns(v) == [value |-> v]
Raises(e) == [exception |-> e]
IsRaise(r) == "exception" \in DOMAIN r

\* Python values of the record: None, int, bool, str.
PyNone == [none |-> TRUE]
PyInt(i) == [int |-> i]
PyBool(b) == [bool |-> b]
PyStr(t) == [str |-> t]
PyDate(y, m, d) == [date |-> <<y, m, d>>]
PyTime(h, m) == [time |-> <<h, m>>]

\* int(data): blanks around, an optional sign, decimal digits.
int(text) ==
    LET t == strip(text)
        signed == t # <<>> /\ Head(t) \in {"+", "-"}
        body == IF signed THEN Tail(t) ELSE t
    IN  IF AllDigits(body)
        THEN Returns(IF signed /\ Head(t) = "-"
                     THEN 0 - NumberOf(body) ELSE NumberOf(body))
        ELSE Raises("ValueError")

\* str.lower() on the letters the model's texts use
lower(text) == [i \in 1..Len(text) |-> IF text[i] = "X" THEN "x" ELSE text[i]]

\* Integer.convert (106-108)
Integer_convert(text) ==
    LET r == int(text) IN IF IsRaise(r) THEN r ELSE Returns(PyInt(r.value))

\* PII.convert (94-97)
PII_convert(text) == Returns(PyNone)

\* Boolean.convert (145-147)
Boolean_convert(text) == Returns(PyBool(lower(text) = <<"x">>))

\* position of the first character of text that is in seps, 0 if none
FirstIndex(text, seps) ==
    IF \E i \in 1..Len(text) : text[i] \in seps
    THEN CHOOSE i \in 1..Len(text) :
            /\ text[i] \in seps
            /\ \A j \in 1..(i - 1) : text[j] \notin seps
    ELSE 0

RECURSIVE split(_, _)
\* str.split(sep) and re.split of a character class: the pieces between
\* the separators
split(text, seps) ==
    LET i == FirstIndex(text, seps)
    IN  IF i = 0 THEN <<text>>
        ELSE <<SubSeq(text, 1, i - 1)>>
             \o split(SubSeq(text, i + 1, Len(text)), seps)

\* text[lo:hi] of Python, for 0 <= lo <= hi
slice(text, lo, hi) ==
    IF lo >= Min(hi, Len(text)) THEN <<>>
    ELSE SubSeq(text, lo + 1, Min(hi, Len(text)))

\* days of the month, as datetime.date checks them
DaysIn(y, m) ==
    IF m \in {4, 6, 9, 11} THEN 30
    ELSE IF m # 2 THEN 31
    ELSE IF y % 4 = 0 /\ (y % 100 # 0 \/ y % 400 = 0) THEN 29
    ELSE 28

\* datetime.date(y, m, d) for y >= 1
date(y, m, d) ==
    IF y <= 9999 /\ m \in 1..12 /\ d >= 1 /\ d <= DaysIn(y, m)
    THEN Returns(PyDate(y, m, d))
    ELSE Raises("ValueError")

\* datetime.time(h, m)
time(h, m) ==
    IF h \in 0..23 /\ m \in 0..59 THEN Returns(PyTime(h, m))
    ELSE Raises("ValueError")

\* Date.convert (114-131)
Date_convert(text) ==
    LET parts == split(text, {"-", "/"})
    IN  IF Len(parts) # 3 THEN Raises("ValueError")
        ELSE LET month == int(parts[1])
                 day == int(parts[2])
                 y == int(parts[3])
             IN  IF IsRaise(y) THEN y
                 ELSE LET year == IF y.value < 100 THEN y.value + 1900
                                  ELSE IF 190 < y.value /\ y.value < 220
                                  THEN y.value + 1800
                                  ELSE y.value
                      IN  IF year < 1900 THEN Raises("ValueError")
                          ELSE IF IsRaise(month) THEN month
                          ELSE IF IsRaise(day) THEN day
                          ELSE date(year, month.value, day.value)

\* Time.convert (135-142): the return statement belongs to the else
\* branch, so the branch of a text with a colon returns None.
Time_convert(text) ==
    IF \E i \in 1..Len(text) : text[i] = ":"
    THEN IF Len(split(text, {":"})) # 2 THEN Raises("ValueError")
         ELSE Returns(PyNone)
    ELSE LET hours == int(slice(text, 0, 2))
             minutes == int(slice(text, 2, 4))
         IN  IF IsRaise(hours) THEN hours
             ELSE IF IsRaise(minutes) THEN minutes
             ELSE time(hours.value, minutes.value)

\* layout_obj["converter"].convert(record), by the converter's class
convert(converter, text) ==
    CASE converter = "Integer" -> Integer_convert(text)
      [] converter = "PII" -> PII_convert(text)
      [] converter = "Boolean" -> Boolean_convert(text)
      [] converter = "Date" -> Date_convert(text)
      [] converter = "Time" -> Time_convert(text)

\* ================================================================== layout
PageTypes == {"report", "diagram"}

\* The names fields have, "n" being one no page declares.
FieldNames == {"a", "b", "c", "n", "date"}

\* A key the dict does not hold.
Absent == [absent |-> TRUE]

\* Parser.__init__ (569-580) on one layout object: "coordinates" becomes
\* a Coordinates, "type" a converter (None: the object has no "type").
LayoutObject(raw, type) ==
    [coordinates |-> CoordinatesOf(raw), raw_coordinates |-> raw,
     converter |-> type]

\* The layout the parsers load (options.layout; the file is not part of
\* the sources): on report pages a and b overlap, c is dropped as PII and
\* one region is skipped, and the page title is not parsed
\* (start_index 1); on diagram pages there are a free-text a and a time
\* b, and objects above start_y are left out.  start_y 0 stands for no start_y: line 232
\* treats both alike.
LoadedLayout ==
    [objects |->
        [t \in PageTypes |->
            [f \in FieldNames |->
                CASE t = "report" /\ f = "a" ->
                       LayoutObject(<<0, 0, 100, 100>>, "Integer")
                  [] t = "report" /\ f = "b" ->
                       LayoutObject(<<50, 50, 150, 150>>, None)
                  [] t = "report" /\ f = "c" ->
                       LayoutObject(<<0, 200, 100, 300>>, "PII")
                  [] t = "diagram" /\ f = "a" ->
                       LayoutObject(<<0, 0, 100, 100>>, None)
                  [] t = "diagram" /\ f = "b" ->
                       LayoutObject(<<100, 0, 150, 100>>, "Time")
                  [] OTHER -> Absent]],
     skip |-> [t \in PageTypes |->
                 IF t = "report"
                 THEN <<CoordinatesOf(<<200, 200, 300, 300>>)>>
                 ELSE <<>>],
     start_index |-> [t \in PageTypes |-> IF t = "report" THEN 1 ELSE 0],
     start_y |-> [t \in PageTypes |-> IF t = "diagram" THEN 120 ELSE 0]]

\* The text objects the layout provider can yield: a text and a bbox
\* (x0, y0, x1, y1).
Texts == {<<>>, <<"7">>, <<"x">>, <<" ">>, <<":">>}

BBoxes == {<<10, 10, 40, 40>>, <<60, 60, 90, 90>>, <<160, 160, 190, 190>>,
           <<(0 - 1), 10, 40, 40>>, <<(0 - 2), 10, 40, 40>>,
           <<210, 210, 290, 290>>, <<10, 210, 40, 290>>,
           <<110, 10, 140, 40>>}

PDFObjects == [text : Texts, bbox : BBoxes]

\* get_text (59-67) of a text object
get_text(obj) == obj.text

\* A parser that asks a human whatever its class.
AlwaysAsks(cls) == TRUE

\* Parser.interactive (559) and ParseChildProcess.interactive (762)
interactive(cls) == IF cls = "ParseChildProcess" THEN FALSE ELSE TRUE

\* What a human may type at a prompt.
Answers == {"a", "b", "c", "n", "S"}

\* ------------------------------------------------------ utils (file names)
RECURSIVE LastIndex(_, _)
\* position of the last c in s, 0 if there is none
LastIndex(s, c) ==
    IF s = <<>> THEN 0
    ELSE IF s[Len(s)] = c THEN Len(s)
    ELSE LastIndex(SubSeq(s, 1, Len(s) - 1), c)

\* os.path.basename
basename(fpath) == SubSeq(fpath, LastIndex(fpath, "/") + 1, Len(fpath))

\* os.path.splitext(name)[0], for a name that does not start with a dot
splitext0(name) ==
    LET dot == LastIndex(name, ".")
    IN  IF dot > 1 THEN SubSeq(name, 1, dot - 1) ELSE name

\* str.upper() on the letters the model's case numbers use
upper(text) ==
    [i \in 1..Len(text) |-> IF text[i] = "b" THEN "B" ELSE text[i]]

RECURSIVE remove(_, _)
\* text.replace(c, "")
remove(text, c) ==
    IF text = <<>> THEN <<>>
    ELSE IF Head(text) = c THEN remove(Tail(text), c)
    ELSE <<Head(text)>> \o remove(Tail(text), c)

\* case_no_to_filename (utils.py 6-7)
case_no_to_filename(case_no) ==
    upper(remove(case_no, "-")) \o <<".", "P", "D", "F">>

\* filename_to_case_no (utils.py 10-13)
filename_to_case_no(fpath) ==
    LET case_id == splitext0(basename(fpath))
    IN  SubSeq(case_id, 1, Min(2, Len(case_id))) \o <<"-">>
        \o SubSeq(case_id, 3, Len(case_id))

\* The document the parser of SpecParser is given.
TheFile == <<"p", "/", "A", "B", "1", "2", ".", "P", "D", "F">>

\* =================================================================== store
\* db.py: the record store db.collisions, a CollisionDatabase keyed by
\* "case_no", as one record: data is _data and by_key is _by_key once
\* loaded (positions count from 1), sync is _sync, needs_write is
\* _needs_write, and files holds what the shard files of the database
\* directory contain, by shard suffix.  The values of a stored record are
\* the Python values of above, its case number a PyStr.

\* str.startswith
startswith(text, prefix) ==
    Len(text) >= Len(prefix) /\ SubSeq(text, 1, Len(prefix)) = prefix

\* Serializer.serialize (52-57) with encode (88-89), for the serializers
\* of Database.serializers (150) in turn: a date or a time becomes a
\* string, the magic "{ClassName}" (one character of the model) and its
\* strftime; any other value is kept.
serialize_value(val) ==
    IF "date" \in DOMAIN val
    THEN PyStr(<<"{DateSerializer}">> \o str(val.date[1]) \o <<"-">>
               \o TwoDigits(val.date[2]) \o <<"-">> \o TwoDigits(val.date[3]))
    ELSE IF "time" \in DOMAIN val
    THEN PyStr(<<"{TimeSerializer}">> \o TwoDigits(val.time[1]) \o <<":">>
               \o TwoDigits(val.time[2]) \o <<":", "0", "0">>)
    ELSE val

\* Serializer.deserialize (59-68) with decode (91-92) and the converters
\* (99-108): a string that starts with a magic is parsed back, any other
\* value is kept.
deserialize_value(val) ==
    IF "str" \in DOMAIN val /\ startswith(val.str, <<"{DateSerializer}">>)
    THEN LET parts == split(Tail(val.str), {"-"})
         IN  PyDate(NumberOf(parts[1]), NumberOf(parts[2]),
                    NumberOf(parts[3]))
    ELSE IF "str" \in DOMAIN val
            /\ startswith(val.str, <<"{TimeSerializer}">>)
    THEN LET parts == split(Tail(val.str), {":"})
         IN  PyTime(NumberOf(parts[1]), NumberOf(parts[2]))
    ELSE val

\* Database._serialize (250-261)
serialize(record) == [k \in DOMAIN record |-> serialize_value(record[k])]

\* Database._deserialize (263-274)
deserialize(record) == [k \in DOMAIN record |-> deserialize_value(record[k])]

\* CollisionDatabase.get_shard (398-402)
get_shard(record) ==
    IF startswith(record.case_no.str, <<"N", "D", "O", "R">>)
    THEN <<"N", "D", "O", "R">>
    ELSE upper(slice(strip(record.case_no.str), 0, 2))

\* Database._shard_data (194-198)
shard_data(records) ==
    [suffix \in {get_shard(records[i]) : i \in DOMAIN records} |->
        SelectSeq(records, LAMBDA r : get_shard(r) = suffix)]

\* Database._save (200-245) without force: nothing while writes are
\* delayed; else every shard that needs it is written and is no longer
\* marked.
save(self) ==
    IF ~self.sync THEN self
    ELSE LET sharded_data == shard_data(self.data)
             written == self.needs_write \cap DOMAIN sharded_data
         IN  [self EXCEPT
                !.files = [suffix \in DOMAIN self.files \cup written |->
                              IF suffix \in written THEN sharded_data[suffix]
                              ELSE self.files[suffix]],
                !.needs_write = @ \ written]

\* Database.delay_write (159-164), up to the yield
delay_write_enter(self) == [self EXCEPT !.sync = FALSE]

\* Database.delay_write (159-164), after the yield: reached only when the
\* body of the with statement ends without an exception.
delay_write_exit(self) == save([self EXCEPT !.sync = TRUE])

\* Database.__setitem__ (280-284), for a position
Database_setitem(self, key, value) ==
    save([self EXCEPT !.data[key] = serialize(value),
                      !.needs_write = @ \cup {get_shard(serialize(value))}])

\* Database.insert (296-300); list.insert at a position past the end
\* appends.
Database_insert(self, index, value) ==
    LET at == Min(index, Len(self.data) + 1)
    IN  save([self EXCEPT
                !.data = SubSeq(@, 1, at - 1) \o <<serialize(value)>>
                         \o SubSeq(@, at, Len(@)),
                !.needs_write = @ \cup {get_shard(serialize(value))}])

\* KeyedDatabase.__getitem__ (327-335), for a key of the index
getitem(self, idx) == deserialize(self.data[self.by_key[idx]])

\* KeyedDatabase.__setitem__ (337-342), for a position (no position is a
\* key of the index)
setitem(self, idx, value) ==
    [Database_setitem(self, idx, value) EXCEPT
        !.by_key = (value.case_no.str :> idx) @@ @]

\* KeyedDatabase.insert (351-353)
insert(self, idx, value) ==
    [Database_insert(self, idx, value) EXCEPT
        !.by_key = (value.case_no.str :> idx) @@ @]

\* KeyedDatabase.exists (364-366)
exists(self, key) == key \in DOMAIN self.by_key

\* KeyedDatabase.update_one (368-371)
update_one(self, record) ==
    setitem(self, self.by_key[record.case_no.str], record)

\* A store that appends whatever it holds.
AlwaysAppend(self, record) == insert(self, Len(self.data) + 1, record)

\* KeyedDatabase.upsert (390-394); MutableSequence.append is
\* insert(len(self), value).
upsert(self, record) ==
    IF exists(self, record.case_no.str) THEN update_one(self, record)
    ELSE insert(self, Len(self.data) + 1, record)

\* KeyedDatabase._load (322-325) and Database.__init__ (152-157): the
\* store after it has loaded the records of its files, in the order
\* records.
Loaded(records) ==
    [data |-> records,
     by_key |-> [k \in {records[i].case_no.str : i \in DOMAIN records} |->
                    CHOOSE i \in DOMAIN records :
                        /\ records[i].case_no.str = k
                        /\ \A j \in DOMAIN records :
                               records[j].case_no.str = k => j <= i],
     sync |-> TRUE,
     needs_write |-> {},
     files |-> shard_data(records)]

\* A run that stores every record, file arguments or not.
AlwaysUpsert(opts, self, record) == upsert(self, record)

\* Parse._store_one_result (454-458)
store_one_result(opts, self, record) ==
    IF opts.files # <<>> THEN self ELSE upsert(self, record)

\* The path of the document numbered p in options.pdfdir.
FileOf(p) ==
    <<"p", "/">> \o (IF p % 2 = 1 THEN <<"A", "B">> ELSE <<"b", "9">>)
    \o str(p) \o <<".", "P", "D", "F">>

\* The record Parser.parse returns for the document numbered p
\* (_parse_pdf, 706-709 and 749), as far as the store reads it.
RecordOf(p) ==
    [case_no |-> PyStr(filename_to_case_no(FileOf(p))),
     filename |-> PyStr(FileOf(p)),
     parsed |-> PyBool(TRUE)]

\* The record the fetch command appends for the document numbered p
\* (fetch.py 139-143): it has no "parsed".
FetchedRecord(p) ==
    [case_no |-> PyStr(filename_to_case_no(FileOf(p))),
     date |-> PyDate(2019, 3, 4),
     hit_and_run |-> PyBool(FALSE)]

\* for r in db.collisions: the records of the store, deserialized
\* (Sequence.__iter__ over KeyedDatabase.__getitem__, 327-335)
Records(self) == [i \in DOMAIN self.data |-> deserialize(self.data[i])]

\* A file list that takes no stored record for parsed.
AllFiles(opts, self, listing) ==
    IF opts.files # <<>> THEN opts.files ELSE listing

\* Parse._build_filelist (460-499), listing being what glob.glob gives of
\* options.pdfdir ("p").
build_filelist(opts, self, listing) ==
    LET lpd(r) == ~startswith(r.case_no.str, <<"N", "D", "O", "R">>)
        path(r) == <<"p", "/">> \o case_no_to_filename(r.case_no.str)
        curated(r) == r.road_location # PyNone /\ lpd(r)
        old(r) == /\ DOMAIN r \cap {"num_vehicles", "unparsed_data",
                                     "unparseable"} = {}
                  /\ lpd(r)
        done(r) == /\ "parsed" \in DOMAIN r
                   /\ r.parsed = PyBool(TRUE)
                   /\ lpd(r)
        reports(test(_)) == SelectSeq(Records(self), test)
        case_numbers == {reports(done)[i].case_no.str :
                            i \in DOMAIN reports(done)}
    IN  IF opts.files # <<>> THEN opts.files
        ELSE IF opts.reparse_curated
        THEN [i \in DOMAIN reports(curated) |-> path(reports(curated)[i])]
        ELSE IF opts.reparse_old
        THEN [i \in DOMAIN reports(old) |-> path(reports(old)[i])]
        ELSE IF opts.reparse_all THEN listing
        ELSE SelectSeq(listing,
                       LAMBDA fpath :
                           filename_to_case_no(fpath) \notin case_numbers)

\* glob.glob of a directory that holds the documents numbered 1 to n
Listing(n) == [p \in 1..n |-> FileOf(p)]

\* The file list of a run, by the numbers of the documents:
\* _build_filelist for the options opts, whose explicit file list names
\* documents by their numbers, over a directory of n documents.
FileList(opts, self, n) ==
    LET named == [opts EXCEPT !.files = [i \in DOMAIN @ |-> FileOf(@[i])]]
        files == build_filelist(named, self, Listing(n))
    IN  [i \in DOMAIN files |->
            CHOOSE q \in 1..n : FileOf(q) = files[i]]

\* The options of a run that has none of the reparse flags.
Options(nprocs, flag, files) ==
    [processes |-> nprocs, interactive |-> flag, files |-> files,
     reparse_curated |-> FALSE, reparse_old |-> FALSE,
     reparse_all |-> FALSE]


\* ============================================================ _parse_pdfobj
\* A parser that skips nothing.
NeverSkipped(lay, name, coords) == FALSE

\* lines 663-671: the object lies in a skip region of its page type
Skipped(lay, name, coords) ==
    \E i \in 1..Len(lay.skip[name]) : contains(lay.skip[name][i], coords, Fuzz)

\* lines 674-677: the names of the candidates
Candidates(lay, name, coords) ==
    {f \in FieldNames :
        /\ lay.objects[name][f] # Absent
        /\ contains(lay.objects[name][f].coordinates, coords, Fuzz)}

\* lines 678-685: the branch taken for a set of candidates
Branch(candidates) ==
    IF Cardinality(candidates) > 1 THEN "MultipleCandidates"
    ELSE IF candidates = {} THEN "NoCandidates"
    ELSE "Resolved"

\* lines 687-700: the layout object is applied to the text.
\* Gives the signal of _parse_pdfobj: a ParsedPDFObjectData or an
\* exception.
Apply(obj_name, layout_obj, record) ==
    IF layout_obj.converter # None
    THEN LET r == convert(layout_obj.converter, record)
         IN  IF IsRaise(r)
             THEN Raises([type |-> "PDFObjectConversionFailed",
                          obj_name |-> obj_name])
             ELSE Returns([name |-> obj_name, data |-> r.value])
    ELSE Returns([name |-> obj_name, data |-> PyStr(record)])

\* _handle_record_multiple_candidates, 603-619: the human picked name.
WidenObject(lay, name, obj_name, coords) ==
    LET new_coords == merge(coords, lay.objects[name][obj_name].coordinates)
    IN  [lay EXCEPT !.objects[name][obj_name].coordinates = new_coords,
                    !.objects[name][obj_name].raw_coordinates =
                        to_list(new_coords)]

\* _handle_record_without_candidates, 637-641: the human typed S.
AddSkip(lay, name, coords) ==
    [lay EXCEPT !.skip[name] = Append(@, coords)]

\* _handle_record_without_candidates, 642-650: the human typed a name.
AddObject(lay, name, obj_name, coords) ==
    [lay EXCEPT !.objects[name][obj_name] =
        [coordinates |-> coords, raw_coordinates |-> to_list(coords),
         converter |-> None]]

\* _parse_pdfobj (656-700) with the two handlers (600-654), for a parser
\* that is or is not interactive and, where a human is asked, the answer
\* that ends the input loop.  Gives the branch taken, the signal (a
\* ParsedPDFObjectData, None or an exception), the layout afterwards and
\* whether a human was asked.
parse_pdfobj(lay, asks, pdfobj, name, answer) ==
    LET record == get_text(pdfobj)
        coords == CoordinatesOf(pdfobj.bbox)
        candidates == Candidates(lay, name, coords)
        branch == Branch(candidates)
        quiet(b, sig) == [branch |-> b, signal |-> sig, layout |-> lay,
                          asked |-> FALSE]
    IN  IF record = <<>> THEN quiet("discarded", Returns(PyNone))
        ELSE IF Skipped(lay, name, coords)
        THEN quiet("discarded", Returns(PyNone))
        ELSE IF branch = "MultipleCandidates"
        THEN IF asks
             THEN LET lay2 == WidenObject(lay, name, answer, coords)
                  IN  [branch |-> branch,
                       signal |-> Apply(answer, lay2.objects[name][answer],
                                        record),
                       layout |-> lay2, asked |-> TRUE]
             ELSE quiet(branch, Raises([type |-> "PDFObjectMultipleCandidates"]))
        ELSE IF branch = "NoCandidates"
        THEN IF asks
             THEN IF answer \in {"S", "s"}
                  THEN [branch |-> branch, signal |-> Returns(PyNone),
                        layout |-> AddSkip(lay, name, coords), asked |-> TRUE]
                  ELSE LET lay2 == AddObject(lay, name, answer, coords)
                       IN  [branch |-> branch,
                            signal |-> Apply(answer,
                                             lay2.objects[name][answer],
                                             record),
                            layout |-> lay2, asked |-> TRUE]
             ELSE quiet(branch, Raises([type |-> "PDFObjectUnknown"]))
        ELSE LET obj_name == CHOOSE f \in candidates : TRUE
             IN  quiet(branch, Apply(obj_name, lay.objects[name][obj_name],
                                     record))

\* The answers that end the input loop of the handler the object reaches
\* (610, 634); "S" stands in where nobody is asked.
AcceptedAnswers(lay, asks, pdfobj, name) ==
    LET coords == CoordinatesOf(pdfobj.bbox)
        candidates == Candidates(lay, name, coords)
    IN  IF ~asks \/ get_text(pdfobj) = <<>> \/ Skipped(lay, name, coords)
           \/ Branch(candidates) = "Resolved"
        THEN {"S"}
        ELSE IF Branch(candidates) = "MultipleCandidates" THEN candidates
        ELSE Answers

\* The state after Parse.__init__ (375-380) and _build_filelist (502),
\* for the given options, file list and corpus.  The store holds the
\* record the fetch command left for the first document.
PipelineInit(opts, files, corpus) ==
    /\ options = opts
    /\ filelist = files
    /\ docs = corpus
    /\ opc = "call"
    /\ work_queue = <<>>
    /\ result_queue = <<>>
    /\ terminate = FALSE
    /\ processes = <<>>
    /\ pidx = 0
    /\ fidx = 0
    /\ results = 0
    /\ elapsed = 0
    /\ error = None
    /\ status = None
    /\ max_len = 0
    /\ wpc = [w \in Workers |-> "idle"]
    /\ wpath = [w \in Workers |-> 0]
    /\ dequeued = [p \in Paths |-> 0]
    /\ pushed = [p \in Paths |-> 0]
    /\ handed = [p \in Paths |-> 0]
    /\ interrupted = {}
    /\ faulted = FALSE
    /\ woke = {}
    /\ collisions = Loaded(<<serialize(FetchedRecord(1))>>)

\* The state of a Parser of class cls before parse() is called
\* (Parser.__init__, 563-585, has loaded the layout), and before any
\* function is called on its own.
ParserInit(cls, at) ==
    /\ pcls = cls
    /\ layout = LoadedLayout
    /\ ppc = at
    /\ data = Absent
    /\ page_types = <<>>
    /\ page = None
    /\ npages = 0
    /\ seen = <<>>
    /\ nobjs = 0
    /\ result = Absent
    /\ prompts = 0
    /\ provider = "ok"
    /\ last = [n |-> 0]
    /\ call = [fn |-> None]
    /\ ret = Absent

\* A run over the NumFiles documents of the directory, named on the
\* command line or not.
Init ==
    \E nprocs \in 1..MaxProcs, flag \in BOOLEAN,
       files \in {<<>>, SeqOfRange(1, NumFiles)}, corpus \in Corpora :
        LET opts == Options(nprocs, flag, files)
        IN  /\ PipelineInit(opts,
                            FileList(opts,
                                     Loaded(<<serialize(FetchedRecord(1))>>),
                                     NumFiles),
                            corpus)
            /\ ParserInit(None, "idle")

\* A run over a file list that names one readable document LoadFiles
\* times (an explicit file list may repeat a path).
InitLoad ==
    \E n \in {1, LoadProcs} :
        /\ PipelineInit(Options(n, FALSE, [i \in 1..LoadFiles |-> 1]),
                        [i \in 1..LoadFiles |-> 1], [p \in Paths |-> "record"])
        /\ ParserInit(None, "idle")

\* ------------------------------------------------------------ orchestrator

\* Parse.__call__ (501-515) and the head of run_multiprocess (525-540):
\* the file list goes onto the work queue and nprocs children are started,
\* each with max_result_queue_length = nprocs * 2.
Call ==
    /\ opc = "call"
    /\ IF Runner(options, filelist) = "foreground"
       THEN /\ opc' = "foreground"
            /\ fidx' = 1
            /\ UNCHANGED <<work_queue, processes, wpc, max_len>>
       ELSE LET nprocs == Min(Len(filelist), options.processes) IN
            /\ opc' = "tend_while"
            /\ work_queue' = filelist
            /\ processes' = SeqOfRange(1, nprocs)
            /\ wpc' = [w \in Workers |-> IF w <= nprocs THEN "loop" ELSE "idle"]
            /\ max_len' = nprocs * 2
            /\ UNCHANGED fidx
    /\ UNCHANGED <<options, filelist, docs, result_queue, terminate, pidx, results, elapsed, error,
                   status, wpath, dequeued, pushed, handed, interrupted,
                   faulted, woke>>
    /\ UNCHANGED collisions
    /\ UNCHANGED <<parserVars, callVars>>

\* run_foreground (517-522): one document per step, parsed in the caller.
RunForeground ==
    /\ opc = "foreground"
    /\ IF fidx > Len(filelist)
       THEN /\ opc' = "returned"
            /\ UNCHANGED <<fidx, handed, dequeued, collisions>>
       ELSE LET outcome == docs[filelist[fidx]] IN
            /\ dequeued' = [dequeued EXCEPT ![filelist[fidx]] = @ + 1]
            /\ CASE outcome = "record" ->
                      /\ handed' = [handed EXCEPT ![filelist[fidx]] = @ + 1]
                      /\ collisions' = store_one_result(
                                           options, collisions,
                                           RecordOf(filelist[fidx]))
                      /\ fidx' = fidx + 1
                      /\ opc' = opc
                 [] outcome = "none" ->
                      /\ fidx' = fidx + 1
                      /\ UNCHANGED <<handed, opc, collisions>>
                 [] outcome = "raise" ->
                      /\ opc' = "raised"
                      /\ UNCHANGED <<handed, fidx, collisions>>
    /\ UNCHANGED <<options, filelist, docs, work_queue, result_queue, terminate, processes,
                   pidx, results, elapsed, error, status, max_len, wpc, wpath, pushed,
                   interrupted, faulted, woke>>
    /\ UNCHANGED <<parserVars, callVars>>

\* _tend_processes, line 387: while self._processes.
TendWhile ==
    /\ opc = "tend_while"
    /\ IF processes = <<>>
       THEN opc' = "final_drain"
       ELSE opc' = "drain"
    /\ results' = 0
    /\ elapsed' = 0
    /\ UNCHANGED <<options, filelist, docs, work_queue, result_queue,
                   terminate, processes, pidx, fidx, error, status, max_len,
                   wpc, wpath, dequeued, pushed, handed, interrupted, faulted,
                   woke>>
    /\ collisions' = delay_write_enter(collisions)
    /\ UNCHANGED <<parserVars, callVars>>

\* The interval _handle_results runs with: the default inside
\* _tend_processes (line 390), 0 for the final drain (line 546).
Interval == IF opc = "drain" THEN DefaultInterval ELSE 0

\* A drain loop that only the clock ends.
NoCeiling(clock, interval, n) == clock < interval

\* _handle_results, lines 438-439: the test of the drain loop.
DrainLoopTest(clock, interval, n) ==
    clock < interval /\ n < result_batch_size

\* The clock after one pass of the drain loop: get(True, timeout) returned
\* or timed out, and the interval may or may not be over.
LaterClock == {elapsed, DefaultInterval}

\* _handle_results, lines 441-449: one record is taken from the result
\* queue and handed to _store_one_result.
DrainGet ==
    /\ opc \in {"drain", "final_drain"}
    /\ DrainLoopTest(elapsed, Interval, results)
    /\ result_queue # <<>>
    /\ result_queue' = Tail(result_queue)
    /\ handed' = [handed EXCEPT ![Head(result_queue)] = @ + 1]
    /\ results' = results + 1
    /\ elapsed' \in LaterClock
    /\ UNCHANGED <<options, filelist, docs, opc, work_queue, terminate,
                   processes, pidx, fidx, error, status, max_len, wpc, wpath,
                   dequeued, pushed, interrupted, faulted, woke>>
    /\ collisions' = store_one_result(options, collisions,
                                       RecordOf(Head(result_queue)))
    /\ UNCHANGED <<parserVars, callVars>>

\* _handle_results, lines 441 and 450-451: the result queue stayed empty
\* for the timeout, queue.Empty restarts the loop.
DrainEmpty ==
    /\ opc \in {"drain", "final_drain"}
    /\ DrainLoopTest(elapsed, Interval, results)
    /\ result_queue = <<>>
    /\ elapsed' = DefaultInterval
    /\ UNCHANGED <<options, filelist, docs, opc, work_queue, result_queue,
                   terminate, processes, pidx, fidx, results, error, status,
                   max_len, wpc, wpath, dequeued, pushed, handed, interrupted,
                   faulted, woke>>
    /\ UNCHANGED collisions
    /\ UNCHANGED <<parserVars, callVars>>

\* The status run_multiprocess returns (551-555).
ReturnStatus(err) == IF err = None THEN 0 ELSE 2

\* _handle_results, lines 438-439 and 452: the loop test fails and the
\* call returns; in _tend_processes the for loop over the processes starts
\* (395), after the final drain run_multiprocess returns (548-555).
DrainExit ==
    /\ opc \in {"drain", "final_drain"}
    /\ ~DrainLoopTest(elapsed, Interval, results)
    /\ IF opc = "drain"
       THEN /\ opc' = "check"
            /\ pidx' = 1
            /\ UNCHANGED status
       ELSE /\ opc' = "returned"
            /\ status' = ReturnStatus(error)
            /\ UNCHANGED pidx
    /\ results' = 0
    /\ elapsed' = 0
    /\ UNCHANGED <<options, filelist, docs, work_queue, result_queue,
                   terminate, processes, fidx, error, max_len, wpc, wpath,
                   dequeued, pushed, handed, interrupted, faulted, woke>>
    /\ collisions' = delay_write_exit(collisions)
    /\ UNCHANGED <<parserVars, callVars>>

\* _tend_processes, lines 395-409: one pass of the for loop.  The loop
\* walks the list by position while line 409 removes from it, so the
\* element after a removed one is skipped in this pass.
CheckProcess ==
    /\ opc = "check"
    /\ IF pidx > Len(processes)
       THEN /\ opc' = "report"
            /\ pidx' = 0
            /\ UNCHANGED processes
       ELSE /\ processes' = IF is_alive(processes[pidx])
                            THEN processes
                            ELSE RemoveAt(processes, pidx)
            /\ pidx' = pidx + 1
            /\ opc' = opc
    /\ UNCHANGED <<options, filelist, docs, work_queue, result_queue, terminate, fidx, results, elapsed,
                   error, status, max_len, wpc, wpath, dequeued, pushed,
                   handed, interrupted, faulted, woke>>
    /\ UNCHANGED collisions
    /\ UNCHANGED <<parserVars, callVars>>

\* _tend_processes, lines 419-427: the progress report after the try.
Report ==
    /\ opc = "report"
    /\ opc' = "tend_while"
    /\ UNCHANGED <<options, filelist, docs, work_queue, result_queue, terminate, processes,
                   pidx, fidx, results, elapsed, error, status, max_len, wpc, wpath,
                   dequeued, pushed, handed, interrupted, faulted, woke>>
    /\ UNCHANGED collisions
    /\ UNCHANGED <<parserVars, callVars>>

\* The workers that are paused for backpressure.
Paused == {w \in Workers : wpc[w] = "sleep"}

\* A KeyboardInterrupt or SystemExit raised in the orchestrator.  Inside
\* the try of _tend_processes (388-409) it is caught at 410-414; anywhere
\* else in run_multiprocess no handler is in scope and it leaves the
\* function.
Interrupt ==
    /\ opc \in {"tend_while", "drain", "check", "report", "final_drain"}
    /\ interrupted' = interrupted \cup {"orchestrator"}
    /\ IF opc \in {"drain", "check"}
       THEN /\ error' = "Caught Ctrl-C"
            /\ terminate' = TRUE
            /\ opc' = "report"
       ELSE /\ opc' = "raised"
            /\ UNCHANGED <<error, terminate>>
    /\ pidx' = 0
    /\ results' = 0
    /\ elapsed' = 0
    /\ UNCHANGED <<options, filelist, docs, work_queue, result_queue,
                   processes, fidx, status, max_len, wpc, wpath, dequeued,
                   pushed, handed, faulted, woke>>
    /\ \/ UNCHANGED collisions
       \/ /\ opc \in {"drain", "final_drain"}
          /\ ~DrainLoopTest(elapsed, Interval, results)
          /\ collisions' = delay_write_exit(collisions)
    /\ UNCHANGED <<parserVars, callVars>>

\* _store_one_result raises (the store or the terminal fails) on the
\* record just taken: lines 415-418 inside _tend_processes, uncaught in
\* the final drain.
StoreFails ==
    /\ opc \in {"drain", "final_drain"}
    /\ DrainLoopTest(elapsed, Interval, results)
    /\ result_queue # <<>>
    /\ result_queue' = Tail(result_queue)
    /\ handed' = [handed EXCEPT ![Head(result_queue)] = @ + 1]
    /\ IF opc = "drain"
       THEN /\ terminate' = TRUE
            /\ error' = "Uncaught exception"
            /\ opc' = "report"
       ELSE /\ opc' = "raised"
            /\ UNCHANGED <<terminate, error>>
    /\ results' = 0
    /\ elapsed' = 0
    /\ UNCHANGED <<options, filelist, docs, work_queue, processes, pidx, fidx,
                   status, max_len, wpc, wpath, dequeued, pushed, interrupted,
                   faulted, woke>>
    /\ UNCHANGED collisions
    /\ UNCHANGED <<parserVars, callVars>>

\* ------------------------------------------------------------------ worker

\* ParseChildProcess.run, line 790: while not self._terminate.is_set().
WorkerLoop(w) ==
    /\ wpc[w] = "loop"
    /\ wpc' = [wpc EXCEPT ![w] = IF terminate THEN "exited" ELSE "bp"]
    /\ UNCHANGED <<options, filelist, docs, opc, work_queue, result_queue, terminate,
                   processes, pidx, fidx, results, elapsed, error, status, max_len,
                   wpath, dequeued, pushed, handed, interrupted, faulted, woke>>
    /\ UNCHANGED collisions
    /\ UNCHANGED <<parserVars, callVars>>

\* line 791: the test of the backpressure loop.
QueueFull == Len(result_queue) >= max_len

\* lines 791-798, first test: pause, or go on to the work queue.
WorkerBackpressure(w) ==
    /\ wpc[w] = "bp"
    /\ wpc' = [wpc EXCEPT ![w] = IF QueueFull THEN "sleep" ELSE "get"]
    /\ UNCHANGED <<options, filelist, docs, opc, work_queue, result_queue, terminate,
                   processes, pidx, fidx, results, elapsed, error, status, max_len,
                   wpath, dequeued, pushed, handed, interrupted, faulted, woke>>
    /\ UNCHANGED collisions
    /\ UNCHANGED <<parserVars, callVars>>

\* lines 791-800: the pause ends, the queue is tested again and is below
\* the ceiling, and the worker goes on to line 800 (a pause that ends with
\* the queue still full is followed by the next pause).
WorkerWake(w) ==
    /\ wpc[w] = "sleep"
    /\ ~QueueFull
    /\ wpc' = [wpc EXCEPT ![w] = "get"]
    /\ woke' = IF terminate THEN woke \cup {w} ELSE woke
    /\ UNCHANGED <<options, filelist, docs, opc, work_queue, result_queue, terminate,
                   processes, pidx, fidx, results, elapsed, error, status, max_len,
                   wpath, dequeued, pushed, handed, interrupted, faulted>>
    /\ UNCHANGED collisions
    /\ UNCHANGED <<parserVars, callVars>>

\* lines 801 and 808-810: get_nowait on the work queue.
WorkerGet(w) ==
    /\ wpc[w] = "get"
    /\ IF work_queue = <<>>
       THEN /\ wpc' = [wpc EXCEPT ![w] = "exited"]
            /\ UNCHANGED <<work_queue, wpath, dequeued>>
       ELSE /\ wpc' = [wpc EXCEPT ![w] = "parse"]
            /\ wpath' = [wpath EXCEPT ![w] = Head(work_queue)]
            /\ work_queue' = Tail(work_queue)
            /\ dequeued' = [dequeued EXCEPT ![Head(work_queue)] = @ + 1]
    /\ woke' = woke \ {w}
    /\ UNCHANGED <<options, filelist, docs, opc, result_queue, terminate, processes, pidx,
                   fidx, results, elapsed, error, status, max_len, pushed, handed,
                   interrupted, faulted>>
    /\ UNCHANGED collisions
    /\ UNCHANGED <<parserVars, callVars>>

\* lines 803-807: the document is parsed; a record is put on the result
\* queue, None is dropped (line 804), and an exception that is neither
\* queue.Empty nor KeyboardInterrupt ends the process.
WorkerParse(w) ==
    /\ wpc[w] = "parse"
    /\ LET outcome == docs[wpath[w]] IN
        CASE outcome = "record" ->
               /\ result_queue' = Append(result_queue, wpath[w])
               /\ pushed' = [pushed EXCEPT ![wpath[w]] = @ + 1]
               /\ wpc' = [wpc EXCEPT ![w] = "loop"]
               /\ UNCHANGED faulted
          [] outcome = "none" ->
               /\ wpc' = [wpc EXCEPT ![w] = "loop"]
               /\ UNCHANGED <<result_queue, pushed, faulted>>
          [] outcome = "raise" ->
               /\ wpc' = [wpc EXCEPT ![w] = "dead"]
               /\ faulted' = TRUE
               /\ UNCHANGED <<result_queue, pushed>>
    /\ wpath' = [wpath EXCEPT ![w] = 0]
    /\ UNCHANGED <<options, filelist, docs, opc, work_queue, terminate,
                   processes, pidx, fidx, results, elapsed, error, status, max_len,
                   dequeued, handed, interrupted, woke>>
    /\ UNCHANGED collisions
    /\ UNCHANGED <<parserVars, callVars>>

\* A KeyboardInterrupt raised in a worker: inside the try (800-807) it is
\* caught at 811-813 and the loop is left, the path in hand is dropped
\* with it; outside the try it ends the process like any other exception.
WorkerInterrupt(w) ==
    /\ is_alive(w)
    /\ interrupted' = interrupted \cup {"worker"}
    /\ wpc' = [wpc EXCEPT ![w] = IF wpc[w] \in {"get", "parse"}
                                 THEN "exited" ELSE "dead"]
    /\ wpath' = [wpath EXCEPT ![w] = 0]
    /\ woke' = woke \ {w}
    /\ UNCHANGED <<options, filelist, docs, opc, work_queue, result_queue,
                   terminate, processes, pidx, fidx, results, elapsed, error, status,
                   max_len, dequeued, pushed, handed, faulted>>
    /\ UNCHANGED collisions
    /\ UNCHANGED <<parserVars, callVars>>

Next ==
    \/ Call
    \/ RunForeground
    \/ TendWhile
    \/ DrainGet
    \/ DrainEmpty
    \/ DrainExit
    \/ CheckProcess
    \/ Report
    \/ Interrupt
    \/ StoreFails
    \/ \E w \in Workers : WorkerLoop(w)
    \/ \E w \in Workers : WorkerBackpressure(w)
    \/ \E w \in Workers : WorkerWake(w)
    \/ \E w \in Workers : WorkerGet(w)
    \/ \E w \in Workers : WorkerParse(w)
    \/ \E w \in Workers : WorkerInterrupt(w)

Spec == Init /\ [][Next]_vars

SpecLoad == InitLoad /\ [][Next]_vars

\* ---------------------------------------------------------------- backlog
\* The --processes option of the backlog run.
PoolSize == 16
\* Number of documents of the backlog run: one more than
\* result_batch_size can take in one call of _handle_results needs, and
\* what PoolSize workers may put on the result queue (its ceiling is
\* PoolSize * 2).
Backlog == 32

\* A multi-worker run over the Backlog documents of the directory, none
\* named on the command line, at line 387 for the first time, the
\* orchestrator having been slower than its PoolSize workers: they have
\* parsed every document, the records wait on the result queue, and the
\* workers have left run().
InitBacklog ==
    /\ options = Options(PoolSize, FALSE, <<>>)
    /\ collisions = Loaded(<<serialize(FetchedRecord(1))>>)
    /\ filelist = FileList(options, collisions, Backlog)
    /\ docs = [p \in 1..Backlog |-> "record"]
    /\ opc = "tend_while"
    /\ work_queue = <<>>
    /\ result_queue = filelist
    /\ terminate = FALSE
    /\ processes = SeqOfRange(1, PoolSize)
    /\ pidx = 0
    /\ fidx = 0
    /\ results = 0
    /\ elapsed = 0
    /\ error = None
    /\ status = None
    /\ max_len = PoolSize * 2
    /\ wpc = [w \in 1..PoolSize |-> "exited"]
    /\ wpath = [w \in 1..PoolSize |-> 0]
    /\ dequeued = [p \in 1..Backlog |-> 1]
    /\ pushed = [p \in 1..Backlog |-> 1]
    /\ handed = [p \in 1..Backlog |-> 0]
    /\ interrupted = {}
    /\ faulted = FALSE
    /\ woke = {}
    /\ ParserInit(None, "idle")

\* An interrupt that arrives while _handle_results runs.
InterruptDrain ==
    /\ opc \in {"drain", "final_drain"}
    /\ Interrupt

\* The steps of the orchestrator in the backlog run: no worker has a step
\* left, interrupts arrive while results are handled, and
\* _store_one_result does not fail.
NextBacklog ==
    \/ TendWhile
    \/ DrainGet
    \/ DrainEmpty
    \/ DrainExit
    \/ CheckProcess
    \/ Report
    \/ InterruptDrain

SpecBacklog == InitBacklog /\ [][NextBacklog]_vars

\* ================================================================== Parser
\* The elements of a sequence.
Range(s) == {s[i] : i \in DOMAIN s}

\* The class of the instance that parses: Parser in run_foreground (518),
\* ParseChildProcess in run_multiprocess (532).
ParserClass(opts, files) ==
    IF Runner(opts, files) = "foreground" THEN "Parser"
    ELSE "ParseChildProcess"

\* A run of Parse over NumFiles documents, seen at the parsing of one of
\* them by the instance the run creates.
InitParser ==
    \E nprocs \in 1..MaxProcs, flag \in BOOLEAN :
        LET opts == Options(nprocs, flag, SeqOfRange(1, NumFiles))
        IN  /\ PipelineInit(opts, SeqOfRange(1, NumFiles),
                            [p \in Paths |-> "record"])
            /\ ParserInit(ParserClass(opts, SeqOfRange(1, NumFiles)),
                          "start")

\* _parse_pdf, 706-716: the record is started and the document is opened;
\* an IOError gives the minimal record.
OpenDocument ==
    /\ ppc = "start"
    /\ \E opened \in BOOLEAN :
        LET d0 == [filename |-> TheFile,
                   case_no |-> filename_to_case_no(TheFile)]
            d1 == [unreadable |-> TRUE, parsed |-> FALSE] @@ d0
        IN  IF opened
            THEN /\ data' = d0
                 /\ ppc' = "pages"
                 /\ UNCHANGED <<result, provider>>
            ELSE /\ data' = d1
                 /\ result' = d1
                 /\ ppc' = "returned"
                 /\ provider' = "open_failed"
    /\ page_types' = <<>>
    /\ UNCHANGED <<pcls, layout, page, npages, seen, nobjs, prompts, last>>
    /\ UNCHANGED <<pipeVars, callVars>>

\* What the matches predicates read of a page: the text of its first
\* object.  The titles of the page types of PageTypes, and a text that is
\* no title.
Title(t) ==
    IF t = "report" THEN "Motor Vehicle  Accident  Report"
    ELSE "THE  FOLLOWING INFORMATION  IS REQUIRED"

FirstTexts == {Title(t) : t \in PageTypes} \cup {"Page 2"}

\* The objects lists list(layout) (199) can be: empty, or starting with
\* an object of one of the texts.
ObjectLists == {<<>>} \cup {<<t>> : t \in FirstTexts}

\* ReportPage.matches (264-265), DiagramPage.matches (272-274), on a list
\* that has a first object
matches(t, objects) == objects[1] = Title(t)

\* PDFPage.factory (236-241): the page type, UnknownPageType, or the
\* IndexError of objects[0] on an empty list (every order of the
\* subclasses reaches a predicate that reads objects[0]).
factory(objects) ==
    IF objects = <<>> THEN Raises([type |-> "IndexError"])
    ELSE IF \E t \in PageTypes : matches(t, objects)
    THEN Returns(CHOOSE t \in PageTypes : matches(t, objects))
    ELSE Raises([type |-> "UnknownPageType"])

\* A test that takes no page type for parsed before.
NeverDuplicate(types, name) == FALSE

\* _parse_pdf, 722: the page type was parsed before in this document.
Duplicate(types, name) == name \in Range(types)

\* PDFDocument.__iter__ (193-210) makes the next page, a PDFPage of the
\* type PDFPage.factory found or an UnknownPageType, and _parse_pdf
\* (719-730) skips it or starts on its objects.  An exception of factory
\* other than UnknownPageType leaves __iter__, _parse_pdf and parse.
NextPage ==
    /\ ppc = "pages"
    /\ npages < MaxPages
    /\ npages' = npages + 1
    /\ \E objects \in ObjectLists :
        LET p == factory(objects)
        IN  /\ seen' = Append(seen, objects)
            /\ IF IsRaise(p)
               THEN /\ ppc' = IF p.exception.type = "UnknownPageType"
                              THEN ppc ELSE "raised"
                    /\ UNCHANGED <<page_types, page, nobjs>>
               ELSE IF Duplicate(page_types, p.value)
               THEN UNCHANGED <<ppc, page_types, page, nobjs>>
               ELSE /\ page_types' = Append(page_types, p.value)
                    /\ page' = p.value
                    /\ nobjs' = 0
                    /\ ppc' = "objects"
    /\ UNCHANGED <<pcls, layout, data, result, prompts, provider, last>>
    /\ UNCHANGED <<pipeVars, callVars>>

\* The layout provider raises a psparser.PSException while the pages are
\* iterated (pdfminer reads the document at the first pass, 182-199);
\* nothing in _parse_pdf catches it and parse (752-757) returns None.
ProviderFails ==
    /\ ppc = "pages"
    /\ provider' = "parse_failed"
    /\ result' = PyNone
    /\ ppc' = "returned"
    /\ UNCHANGED <<pcls, layout, data, page_types, page, npages, seen,
                   nobjs, prompts, last>>
    /\ UNCHANGED <<pipeVars, callVars>>

\* Any other exception of the layout provider while the pages are
\* iterated (process_page, 197) leaves parse.
PageRaises ==
    /\ ppc = "pages"
    /\ ppc' = "raised"
    /\ UNCHANGED <<pcls, layout, data, page_types, page, npages, seen,
                   nobjs, result, prompts, provider, last>>
    /\ UNCHANGED <<pipeVars, callVars>>

\* _parse_pdf, 747-750: the document has no more pages.
Finalize(d, types) ==
    LET d1 == IF types = <<>> THEN [unparseable |-> TRUE] @@ d ELSE d
    IN  [parsed |-> TRUE] @@ d1

EndDocument ==
    /\ ppc = "pages"
    /\ data' = Finalize(data, page_types)
    /\ result' = Finalize(data, page_types)
    /\ ppc' = "returned"
    /\ UNCHANGED <<pcls, layout, page_types, page, npages, seen, nobjs,
                   prompts, provider, last>>
    /\ UNCHANGED <<pipeVars, callVars>>

\* data["unparsed_data"], empty while the key is missing
unparsed_data(d) ==
    IF "unparsed_data" \in DOMAIN d THEN d.unparsed_data ELSE <<>>

\* Error recording that keeps only the exceptions that carry a field name.
RecordNamedError(d, exception, pdfobj) ==
    IF "obj_name" \in DOMAIN exception
    THEN [unparsed_data |->
             Append(unparsed_data(d), [name |-> exception.obj_name])] @@ d
    ELSE d

\* _parse_pdf, 735-742: a PDFObjectParsingException is put on the list.
RecordError(d, exception, pdfobj) ==
    LET entry == IF "obj_name" \in DOMAIN exception
                 THEN [name |-> exception.obj_name]
                 ELSE [bbox |-> pdfobj.bbox]
    IN  [unparsed_data |-> Append(unparsed_data(d), entry)] @@ d

\* A record that keeps the first value of a field.
KeepFirst(d, obj_data) ==
    IF obj_data # PyNone /\ obj_data.data # PyNone
    THEN d @@ (obj_data.name :> obj_data.data)
    ELSE d

\* _parse_pdf, 743-745: the datum is stored unless it is None.
StoreDatum(d, obj_data) ==
    IF obj_data # PyNone /\ obj_data.data # PyNone
    THEN (obj_data.name :> obj_data.data) @@ d
    ELSE d

\* _parse_pdf, 733-745: what the signal of _parse_pdfobj does to the
\* record.
Collect(d, signal, pdfobj) ==
    IF IsRaise(signal) THEN RecordError(d, signal.exception, pdfobj)
    ELSE StoreDatum(d, signal.value)

\* PDFPage.__iter__ (229-234): the object at position n of the page is
\* left out, being before start_index or above start_y.
LeftOut(lay, name, n, pdfobj) ==
    \/ n < lay.start_index[name]
    \/ /\ lay.start_y[name] # 0
       /\ CoordinatesOf(pdfobj.bbox).ymin > lay.start_y[name]

\* The page yields its next object (PDFPage.__iter__) and _parse_pdf
\* (732-745) handles it.
NextObject ==
    /\ ppc = "objects"
    /\ nobjs < MaxObjects
    /\ nobjs' = nobjs + 1
    /\ \E pdfobj \in PDFObjects :
        IF LeftOut(layout, page, nobjs, pdfobj)
        THEN UNCHANGED <<layout, data, prompts, last>>
        ELSE \E answer \in AcceptedAnswers(layout, interactive(pcls), pdfobj, page) :
             LET r == parse_pdfobj(layout, interactive(pcls), pdfobj, page,
                                   answer)
             IN  /\ layout' = r.layout
                 /\ data' = Collect(data, r.signal, pdfobj)
                 /\ prompts' = IF r.asked THEN prompts + 1 ELSE prompts
                 /\ last' = [n |-> last.n + 1, pdfobj |-> pdfobj,
                             page |-> page, branch |-> r.branch,
                             signal |-> r.signal]
    /\ UNCHANGED <<pcls, ppc, page_types, page, npages, seen, result,
                   provider>>
    /\ UNCHANGED <<pipeVars, callVars>>

\* The page has no more objects (the for loop at 732 ends).
EndPage ==
    /\ ppc = "objects"
    /\ ppc' = "pages"
    /\ page' = None
    /\ nobjs' = 0
    /\ UNCHANGED <<pcls, layout, data, page_types, npages, seen, result,
                   prompts, provider, last>>
    /\ UNCHANGED <<pipeVars, callVars>>

NextParser ==
    \/ OpenDocument
    \/ NextPage
    \/ ProviderFails
    \/ PageRaises
    \/ EndDocument
    \/ NextObject
    \/ EndPage

SpecParser == InitParser /\ [][NextParser]_vars

\* ========================================================= single calls
\* The functions of the program that depend on their arguments only, each
\* called once on arguments from a bounded set.

\* Largest coordinate of the regions of the calls.
MaxCoord == 2
\* Largest fuzz of the calls of contains.
MaxFuzz == 2

\* The regions Coordinates can make of the coordinates 0..MaxCoord.
Regions ==
    {Coordinates(x0, y0, x1, y1) : x0 \in 0..MaxCoord, y0 \in 0..MaxCoord,
                                   x1 \in 0..MaxCoord, y1 \in 0..MaxCoord}

\* Nothing is being parsed and no run is under way.
InitCalls ==
    /\ PipelineInit(Options(1, FALSE, <<>>), <<>>,
                    [p \in Paths |-> "record"])
    /\ ParserInit(None, "idle")

\* a.merge(b)
CallMerge ==
    /\ call.fn = None
    /\ \E a \in Regions, b \in Regions :
        /\ call' = [fn |-> "merge", a |-> a, b |-> b]
        /\ ret' = [ab |-> merge(a, b), ba |-> merge(b, a),
                   aa |-> merge(a, a)]
    /\ UNCHANGED <<pipeVars, parserVars>>

\* r.contains(p, fuzz=f), and the same with a second fuzz g
CallContains ==
    /\ call.fn = None
    /\ \E r \in Regions, p \in Regions, f \in 0..MaxFuzz, g \in 0..MaxFuzz :
        /\ call' = [fn |-> "contains", r |-> r, p |-> p, f |-> f, g |-> g]
        /\ ret' = [f |-> contains(r, p, f), g |-> contains(r, p, g)]
    /\ UNCHANGED <<pipeVars, parserVars>>

\* A layout whose report pages declare the one field date with the Date
\* converter, its "coordinates" being the list raw.
DateLayout(raw) ==
    [objects |->
        [t \in PageTypes |->
            [f \in FieldNames |->
                IF t = "report" /\ f = "date" THEN LayoutObject(raw, "Date")
                ELSE Absent]],
     skip |-> [t \in PageTypes |-> <<>>],
     start_index |-> [t \in PageTypes |-> 0],
     start_y |-> [t \in PageTypes |-> 0]]

\* Four numbers as a layout file and as a text object may hold them.
Quadruples ==
    {<<0, 100, 0, 50>>, <<0, 0, 100, 50>>, <<20, 10, 80, 40>>,
     <<20, 80, 10, 40>>, <<200, 200, 300, 300>>}

DateTexts ==
    {<<"0", "3", "-", "0", "4", "-", "2", "0", "1", "9">>,
     <<"0", "3", "/", "0", "4", "/", "1", "9">>,
     <<"x">>, <<>>}

\* The body of the loop of _parse_pdf (733-745) on one object of a report
\* page, for a batch-mode parser with the layout DateLayout(raw) and a
\* record that has no field yet.
CallParsePdfobj ==
    /\ call.fn = None
    /\ \E raw \in Quadruples, bbox \in Quadruples, text \in DateTexts :
        LET pdfobj == [text |-> text, bbox |-> bbox]
            r == parse_pdfobj(DateLayout(raw), FALSE, pdfobj, "report", "S")
        IN  /\ call' = [fn |-> "_parse_pdfobj", raw |-> raw,
                        pdfobj |-> pdfobj]
            /\ ret' = [branch |-> r.branch,
                       data |-> Collect([filename |-> TheFile], r.signal,
                                        pdfobj)]
    /\ UNCHANGED <<pipeVars, parserVars>>

Months == {1, 2, 12, 13}
Days == {1, 29, 31}
Years == {0, 5, 99, 100, 189, 190, 191, 195, 213, 219, 220, 221, 1899,
          1900, 1995, 2019}

\* Date().convert(text) on month, day and year with two separators
CallDate ==
    /\ call.fn = None
    /\ \E m \in Months, d \in Days, y \in Years, s1 \in {"-", "/"},
          s2 \in {"-", "/"} :
        /\ call' = [fn |-> "Date.convert", month |-> m, day |-> d,
                    year |-> y,
                    text |-> str(m) \o <<s1>> \o str(d) \o <<s2>> \o str(y)]
        /\ ret' = Date_convert(str(m) \o <<s1>> \o str(d) \o <<s2>>
                               \o str(y))
    /\ UNCHANGED <<pipeVars, parserVars>>

Hours == 0..24
Minutes == {0, 5, 30, 59, 60}

\* Time().convert on the two spellings of one time
CallTime ==
    /\ call.fn = None
    /\ \E h \in Hours, m \in Minutes :
        /\ call' = [fn |-> "Time.convert", hours |-> h, minutes |-> m]
        /\ ret' = [colon |-> Time_convert(TwoDigits(h) \o <<":">>
                                          \o TwoDigits(m)),
                   compact |-> Time_convert(TwoDigits(h) \o TwoDigits(m))]
    /\ UNCHANGED <<pipeVars, parserVars>>

\* Longest rest of a case number, after its first two characters and the
\* separator.
MaxRest == 2

CaseChars == {"A", "b", "1"}

\* Case numbers: two characters, the separator, and the rest.
CaseNumbers ==
    {<<c1, c2, "-">> \o rest :
        c1 \in CaseChars, c2 \in CaseChars,
        rest \in UNION {[1..n -> CaseChars \cup {"-"}] : n \in 1..MaxRest}}

\* case_no_to_filename(c), filename_to_case_no of that file name, and
\* case_no_to_filename of that case number
CallCaseNo ==
    /\ call.fn = None
    /\ \E c \in CaseNumbers :
        LET f == case_no_to_filename(c)
        IN  /\ call' = [fn |-> "case_no_to_filename", case_no |-> c]
            /\ ret' = [filename |-> f,
                       case_no |-> filename_to_case_no(f),
                       again |-> case_no_to_filename(
                                     filename_to_case_no(f))]
    /\ UNCHANGED <<pipeVars, parserVars>>

\* Regions a layout file may list under "skip", as (x0, y0, x1, y1).
SkipRaws == {<<0, 0, 160, 160>>, <<5, 5, 45, 45>>, <<205, 205, 295, 295>>}

\* The loaded layout with one more skip region for page type t
\* (Parser.__init__, 581-585, makes a Coordinates of each list).
SkipLayout(t, raw) ==
    [LoadedLayout EXCEPT !.skip[t] = Append(@, CoordinatesOf(raw))]

\* _parse_pdfobj on one object of a page of type name, for a parser whose
\* layout has the skip region raw for page type t, and the same call for
\* a parser with the loaded layout
CallSkip ==
    /\ call.fn = None
    /\ \E t \in PageTypes, raw \in SkipRaws, name \in PageTypes,
          bbox \in BBoxes, asks \in BOOLEAN :
        LET pdfobj == [text |-> <<"7">>, bbox |-> bbox]
            lay == SkipLayout(t, raw)
        IN  \E answer \in AcceptedAnswers(lay, asks, pdfobj, name),
               other \in AcceptedAnswers(LoadedLayout, asks, pdfobj, name) :
                /\ answer \in AcceptedAnswers(LoadedLayout, asks, pdfobj, name)
                   => other = answer
                /\ call' = [fn |-> "skip", layout |-> lay, skip_page |-> t,
                            page |-> name, pdfobj |-> pdfobj, asks |-> asks,
                            answer |-> answer]
                /\ ret' = [with |-> parse_pdfobj(lay, asks, pdfobj, name,
                                                 answer),
                           without |-> parse_pdfobj(LoadedLayout, asks,
                                                    pdfobj, name, other)]
    /\ UNCHANGED <<pipeVars, parserVars>>

\* Texts of a time field and of a free-text field.
TimeTexts == {<<"0", "7", "3", "0">>, <<"1", "2", "0", "0">>,
              <<"0", "7", ":", "3", "0">>, <<"x">>}

\* The body of the loop of _parse_pdf (733-745) on one object of a page
\* of type name, for a batch-mode parser: the layout and the record
\* afterwards, and the signal of _parse_pdfobj.
LoopBody(before, pdfobj, name) ==
    LET r == parse_pdfobj(before.layout, FALSE, pdfobj, name, "S")
    IN  [layout |-> r.layout, signal |-> r.signal,
         data |-> Collect(before.data, r.signal, pdfobj)]

\* The objects of the two fields of a diagram page.
FieldBoxes == {<<10, 10, 40, 40>>, <<110, 10, 140, 40>>}

\* That body on the first object of a diagram page, with the loaded
\* layout and a record that has no field yet
CallParseFirst ==
    /\ call.fn = None
    /\ \E text \in TimeTexts, bbox \in FieldBoxes :
        /\ call' = [fn |-> "_parse_pdf",
                    first |-> [text |-> text, bbox |-> bbox]]
        /\ ret' = [first |-> LoopBody([layout |-> LoadedLayout,
                                       data |-> [filename |-> TheFile]],
                                      [text |-> text, bbox |-> bbox],
                                      "diagram")]
    /\ UNCHANGED <<pipeVars, parserVars>>

\* and on the second object of that page
CallParseSecond ==
    /\ call.fn = "_parse_pdf"
    /\ "second" \notin DOMAIN call
    /\ \E text \in TimeTexts, bbox \in FieldBoxes :
        /\ call' = [second |-> [text |-> text, bbox |-> bbox]] @@ call
        /\ ret' = [second |-> LoopBody(ret.first,
                                       [text |-> text, bbox |-> bbox],
                                       "diagram")] @@ ret
    /\ UNCHANGED <<pipeVars, parserVars>>

\* A document of the directory whose name starts like a case number of
\* the other source of records.
StateFile == <<"p", "/", "N", "D", "O", "R", "1", ".", "P", "D", "F">>

\* What glob.glob may give of options.pdfdir.
Listings ==
    {SelectSeq(<<FileOf(1), FileOf(2), StateFile>>, LAMBDA f : f \in some) :
        some \in SUBSET {FileOf(1), FileOf(2), StateFile}}

\* The record Parser.parse returns for the readable document fpath
\* (706-709 and 749).
ParsedRecord(fpath) ==
    [case_no |-> PyStr(filename_to_case_no(fpath)),
     filename |-> PyStr(fpath),
     parsed |-> PyBool(TRUE)]

\* Records the store may hold: of a parsed document, of a document that
\* could not be read (715), of a fetched report, and of the other source.
StoredRecords ==
    UNION {{ParsedRecord(f),
            [ParsedRecord(f) EXCEPT !.parsed = PyBool(FALSE)]} :
              f \in {FileOf(1), FileOf(2), StateFile}}
    \cup {FetchedRecord(1), FetchedRecord(2),
          [case_no |-> PyStr(<<"N", "D", "O", "R", "1">>),
           parsed |-> PyBool(TRUE)]}

\* The stores of at most two records.
Stores ==
    {Loaded(<<>>)}
    \cup {Loaded(<<serialize(r)>>) : r \in StoredRecords}
    \cup {Loaded(<<serialize(r), serialize(q)>>) :
              r \in StoredRecords, q \in StoredRecords}

\* _build_filelist of a run without file arguments and reparse flags, and
\* again after the record of the first file of that list was upserted
CallBuildFilelist ==
    /\ call.fn = None
    /\ \E store \in Stores, listing \in Listings :
        LET opts == Options(1, FALSE, <<>>)
            files == build_filelist(opts, store, listing)
        IN  /\ call' = [fn |-> "_build_filelist", store |-> store,
                        listing |-> listing]
            /\ ret' = [files |-> files,
                       next |-> IF files = <<>> THEN <<>>
                                ELSE build_filelist(
                                         opts,
                                         upsert(store,
                                                ParsedRecord(Head(files))),
                                         listing)]
    /\ UNCHANGED <<pipeVars, parserVars>>

\* Longest sequence of upserts.
MaxUpserts == 3

\* db.collisions.upsert(record), inside or outside a with block of
\* delay_write, on a store as loaded or as the upsert before left it
CallUpsert ==
    /\ call.fn \in {None, "upsert"}
    /\ call.fn = "upsert" => Len(call.history) < MaxUpserts
    /\ \E record \in StoredRecords, inside \in BOOLEAN,
          loaded \in {Loaded(<<>>), Loaded(<<serialize(FetchedRecord(1))>>)} :
        LET held == IF call.fn = None THEN loaded ELSE ret.store
            before == IF inside THEN delay_write_enter(held)
                      ELSE IF held.sync THEN held
                      ELSE delay_write_exit(held)
        IN  /\ call' = [fn |-> "upsert", before |-> before,
                        record |-> record,
                        history |-> IF call.fn = None THEN <<record>>
                                    ELSE Append(call.history, record)]
            /\ ret' = [store |-> upsert(before, record)]
    /\ UNCHANGED <<pipeVars, parserVars>>

NextCalls ==
    \/ CallUpsert
    \/ CallBuildFilelist
    \/ CallMerge
    \/ CallContains
    \/ CallParsePdfobj
    \/ CallDate
    \/ CallTime
    \/ CallCaseNo
    \/ CallSkip
    \/ CallParseFirst
    \/ CallParseSecond

SpecCalls == InitCalls /\ [][NextCalls]_vars

\* ------------------------------------------------------------------ claims

\* How often a path occurs in the file list.
Occurrences(p) == Cardinality({i \in DOMAIN filelist : filelist[i] = p})

MultiprocessRun == Runner(options, filelist) = "multiprocess"

\* C1: in a multi-worker run that ended with no interrupt, no worker fault
\* and no error, every path of the file list was taken from the work queue
\* exactly once and exactly one record was pushed for it.
C1_OneRecordPerPath ==
    (/\ MultiprocessRun
     /\ opc = "returned"
     /\ interrupted = {}
     /\ ~faulted
     /\ error = None)
    => \A p \in Paths : /\ dequeued[p] = Occurrences(p)
                        /\ pushed[p] = Occurrences(p)

\* C2: when run_multiprocess has returned (here: from a run with no
\* interrupt, no worker fault and no exception), every record a worker
\* pushed onto the result queue has been handed to _store_one_result.
C2_FinalDrainCollectsAll ==
    (/\ MultiprocessRun
     /\ opc = "returned"
     /\ interrupted = {}
     /\ ~faulted
     /\ error = None)
    => \A p \in Paths : handed[p] = pushed[p]

\* C3: the result queue never holds more than its ceiling plus one record.
C3_BackpressureBound ==
    MultiprocessRun => Len(result_queue) <= max_len + 1

\* C4: a worker whose backpressure pause ends with the termination flag
\* set takes no further path from the work queue.
C4_NoNewWorkAfterTerminate ==
    [][\A w \in woke : ~(wpc[w] = "get" /\ wpc'[w] = "parse")]_vars

\* C5: a run in which the orchestrator was interrupted ends by returning 2
\* with the termination flag set, and a run with no interrupt and no
\* exception returns 0.
C5_InterruptReturnsTwo ==
    (MultiprocessRun /\ opc \in {"returned", "raised"})
    => /\ "orchestrator" \in interrupted
          => (terminate /\ opc = "returned" /\ status = 2)
       /\ (interrupted = {} /\ error = None /\ opc = "returned")
          => status = 0

\* C6: a run in which a worker died of an uncaught exception (and nobody
\* was interrupted) ends with the termination flag set and a non-zero
\* status.
C6_WorkerFaultStopsRun ==
    (MultiprocessRun /\ faulted /\ interrupted = {} /\ opc = "returned")
    => (terminate /\ status # 0)

\* The parser has just handled a fragment: the step is NextObject on an
\* object that PDFPage.__iter__ did not leave out.
Handled == last'.n = last.n + 1

\* Region r grown by f on every side.
Expanded(r, f) ==
    [xmin |-> r.xmin - f, xmax |-> r.xmax + f,
     ymin |-> r.ymin - f, ymax |-> r.ymax + f]

\* Region p lies within region r.
Within(p, r) ==
    /\ r.xmin <= p.xmin
    /\ p.xmax <= r.xmax
    /\ r.ymin <= p.ymin
    /\ p.ymax <= r.ymax

\* The field definitions of page type t, in layout lay, whose region grown
\* by the fuzz holds the region of the fragment.
Containing(lay, t, pdfobj) ==
    {f \in FieldNames :
        /\ lay.objects[t][f] # Absent
        /\ Within(CoordinatesOf(pdfobj.bbox),
                  Expanded(lay.objects[t][f].coordinates, Fuzz))}

\* The field a signal of _parse_pdfobj is about, None if it names none.
FieldOf(signal) ==
    IF IsRaise(signal)
    THEN IF "obj_name" \in DOMAIN signal.exception
         THEN signal.exception.obj_name ELSE None
    ELSE IF signal.value = PyNone THEN None ELSE signal.value.name

\* C7: every handled fragment gets exactly one of the outcomes discarded,
\* Resolved, NoCandidates, MultipleCandidates, and unless it is discarded
\* the outcome follows from the number of field definitions of its page
\* type whose region holds the fragment's region with fuzz 0.1: none gives
\* NoCandidates, one gives Resolved to that field, more give
\* MultipleCandidates.
C7_OutcomeByCandidateCount ==
    [][Handled =>
        LET fields == Containing(layout, last'.page, last'.pdfobj)
            branch == last'.branch
        IN  /\ branch \in {"discarded", "Resolved", "NoCandidates",
                           "MultipleCandidates"}
            /\ branch = "NoCandidates"
               => fields = {}
            /\ branch = "Resolved"
               => fields = {FieldOf(last'.signal)}
            /\ branch = "MultipleCandidates"
               => Cardinality(fields) > 1
            /\ branch = "discarded"
               => /\ last'.signal = Returns(PyNone)
                  /\ layout' = layout
                  /\ data' = data]_vars

\* C7 happens: a fragment that only the fuzz puts inside a field region
\* has been resolved to that field.
C7_Witness ==
    /\ last.n > 0
    /\ last.branch = "Resolved"
    /\ last.page = "report"
    /\ last.pdfobj.bbox = <<(0 - 1), 10, 40, 40>>
    /\ FieldOf(last.signal) = "a"

\* The parser is in batch mode: it does not ask a human.
BatchMode == ~interactive(pcls)

\* The fragment just handled failed: no candidate, several candidates, or
\* a conversion that failed.
Failed(l) ==
    \/ l.branch \in {"NoCandidates", "MultipleCandidates"}
    \/ l.branch = "Resolved" /\ IsRaise(l.signal)

\* C8: in batch mode a fragment that fails (no candidates, several
\* candidates, failed conversion) adds exactly one entry at the end of the
\* record's unparsed_data, a fragment that does not fail adds none, the
\* document goes on with no result returned, and a fragment resolved after
\* that with a value is stored in the record under its field.
C8_FieldErrorsAccumulate ==
    [][(BatchMode /\ Handled) =>
        /\ Failed(last')
           => /\ Len(unparsed_data(data')) = Len(unparsed_data(data)) + 1
              /\ SubSeq(unparsed_data(data'), 1, Len(unparsed_data(data)))
                 = unparsed_data(data)
              /\ unparsed_data(data')[Len(unparsed_data(data'))]
                 \in {[name |-> FieldOf(last'.signal)],
                      [bbox |-> last'.pdfobj.bbox]}
        /\ ~Failed(last')
           => unparsed_data(data') = unparsed_data(data)
        /\ ppc' = "objects"
        /\ result' = Absent
        /\ (/\ last'.branch = "Resolved"
            /\ ~IsRaise(last'.signal)
            /\ last'.signal.value.data # PyNone)
           => /\ last'.signal.value.name \in DOMAIN data'
              /\ data'[last'.signal.value.name] = last'.signal.value.data
        /\ layout' = layout]_vars

\* C8 happens: a batch-mode parser has recorded two field errors, the
\* second a fragment with no candidates, and then stored a resolved
\* fragment.
C8_Witness ==
    /\ BatchMode
    /\ ppc = "objects"
    /\ Len(unparsed_data(data)) = 2
    /\ data.unparsed_data[2] \in {[bbox |-> b] : b \in BBoxes}
    /\ last.n = 3
    /\ last.branch = "Resolved"
    /\ ~IsRaise(last.signal)
    /\ "a" \in DOMAIN data

\* C9: in a run whose interactive flag is not set, no parser prompts a
\* human and the loaded layout stays as it was, in the worker pool and on
\* the foreground path.
C9_NoPromptUnlessInteractive ==
    (~options.interactive /\ ppc # "idle")
    => (prompts = 0 /\ layout = LoadedLayout)

\* C10: when the layout provider failed, at open or while the pages were
\* iterated, parse has returned (not raised) a record with unreadable
\* true, parsed false and the case number.
C10_ProviderFailureGivesMinimalRecord ==
    (ppc \in {"returned", "raised"} /\ provider # "ok")
    => /\ ppc = "returned"
       /\ DOMAIN result = {"filename", "case_no", "unreadable", "parsed"}
       /\ result.unreadable = TRUE
       /\ result.parsed = FALSE
       /\ result.case_no = filename_to_case_no(TheFile)

\* A page has just been made by PDFDocument.__iter__: the step is NextPage.
PageMade == Len(seen') = Len(seen) + 1

\* The page type whose predicate the first fragment of the page matches,
\* "Unknown" if no predicate matches (a page without fragments has no
\* fragment that matches).
Classified(objects) ==
    IF objects # <<>> /\ \E t \in PageTypes : objects[1] = Title(t)
    THEN CHOOSE t \in PageTypes : objects[1] = Title(t)
    ELSE "Unknown"

\* C11: a page whose fragments match no page type predicate is skipped:
\* the record, its error list and the page types parsed so far stay as
\* they were, and the parser goes on to the next page exactly as it was
\* before that page.
C11_UnknownPageSkipped ==
    [][(PageMade /\ Classified(seen'[Len(seen')]) = "Unknown")
       => /\ ppc' = "pages"
          /\ UNCHANGED <<data, page_types, layout, page, nobjs, result,
                         prompts, provider, last>>]_vars

\* Page k of the pages is the first of its page type.
FirstOfItsType(pages, k) ==
    /\ Classified(pages[k]) # "Unknown"
    /\ \A j \in 1..(k - 1) : Classified(pages[j]) # Classified(pages[k])

\* C12: a page classified as a page type that an earlier page of the
\* document already had is skipped whole: the step that makes it leaves
\* the record (fields and unparsed_data) and the layout alone and starts
\* on none of its fragments, and the fragments the parser does handle
\* belong to the first page of their type.
C12_DuplicatePageTypeSkipped ==
    [][/\ (/\ PageMade
           /\ Classified(seen'[Len(seen')]) # "Unknown"
           /\ ~FirstOfItsType(seen', Len(seen')))
          => /\ ppc' = "pages"
             /\ UNCHANGED <<data, page_types, layout, page, nobjs, last>>
       /\ (ppc = "objects" /\ ppc' = "objects")
          => /\ seen # <<>>
             /\ FirstOfItsType(seen, Len(seen))
             /\ page = Classified(seen[Len(seen)])]_vars

\* C12 happens: the document had two report pages, a fragment of the
\* first was stored, and the second was skipped.
C12_Witness ==
    /\ ppc = "pages"
    /\ Len(seen) = 2
    /\ Classified(seen[1]) = "report"
    /\ Classified(seen[2]) = "report"
    /\ page_types = <<"report">>
    /\ last.n = 1
    /\ last.branch = "Resolved"

\* C13: a record returned for a document that could be opened has
\* unparseable = true exactly if none of its pages was classified into a
\* known page type, has parsed = true, and never has parsed = true
\* together with unparseable = true.
C13_UnparseableIffNoKnownPage ==
    (ppc = "returned" /\ provider = "ok")
    => /\ ("unparseable" \in DOMAIN result /\ result.unparseable = TRUE)
          <=> (\A k \in 1..Len(seen) : Classified(seen[k]) = "Unknown")
       /\ result.parsed = TRUE
       /\ ~("unparseable" \in DOMAIN result /\ result.unparseable = TRUE
            /\ result.parsed = TRUE)

\* The converter of field f on the pages of type t, None if it has none.
ConverterOf(lay, t, f) == lay.objects[t][f].converter

\* C14: in batch mode, when a fragment is resolved to a field that has a
\* converter, a failed conversion puts the field's name at the end of
\* unparsed_data and does not put the field into the record, and unless
\* the converter is the PII one the fragment is never dropped silently:
\* either the failure is recorded or the converted value is stored under
\* the field.
C14_ConversionFailureRecorded ==
    [][(/\ BatchMode
        /\ Handled
        /\ last'.branch = "Resolved"
        /\ ConverterOf(layout, last'.page, FieldOf(last'.signal)) # None)
       => LET f == FieldOf(last'.signal)
              recorded == unparsed_data(data')
                          = Append(unparsed_data(data), [name |-> f])
              stored == /\ ~IsRaise(last'.signal)
                        /\ last'.signal.value.data # PyNone
                        /\ f \in DOMAIN data'
                        /\ data'[f] = last'.signal.value.data
          IN  /\ IsRaise(last'.signal)
                 => /\ recorded
                    /\ f \notin DOMAIN data => f \notin DOMAIN data'
              /\ ConverterOf(layout, last'.page, f) # "PII"
                 => (recorded \/ stored)]_vars

\* C15: a.merge(b) is the smallest region that holds both, with the
\* bounds (min xmin, max xmax, min ymin, max ymax); so a.merge(a) is a,
\* a.merge(b) holds a and b with fuzz 0, and a.merge(b) is b.merge(a).
C15_MergeIsSmallestCover ==
    call.fn = "merge"
    => /\ ret.ab = [xmin |-> Min(call.a.xmin, call.b.xmin),
                    xmax |-> Max(call.a.xmax, call.b.xmax),
                    ymin |-> Min(call.a.ymin, call.b.ymin),
                    ymax |-> Max(call.a.ymax, call.b.ymax)]
       /\ ret.aa = call.a
       /\ Within(call.a, ret.ab)
       /\ Within(call.b, ret.ab)
       /\ ret.ab = ret.ba

\* C16: r.contains(p, fuzz) is true exactly if p lies within r grown by
\* the fuzz on every side; a p within r that touches r's boundary is
\* contained for every fuzz, 0 included; and what is contained with one
\* fuzz is contained with every larger one.
C16_ContainsIsWithinExpanded ==
    call.fn = "contains"
    => /\ ret.f <=> Within(call.p, Expanded(call.r, call.f))
       /\ Within(call.p, call.r) => ret.f
       /\ (call.f <= call.g /\ ret.f) => ret.g

\* C16 happens: contains was called with fuzz 0, and again with fuzz 1,
\* on a p that shares its left and upper bounds with r and is not r, and
\* said yes.
C16_Witness ==
    /\ call.fn = "contains"
    /\ call.p # call.r
    /\ call.p.xmin = call.r.xmin
    /\ call.p.ymax = call.r.ymax
    /\ call.f = 0
    /\ ret.f = TRUE
    /\ call.g = 1

\* C17: with the field date declared at region (0,10,0,5), written as
\* (xmin, xmax, ymin, ymax), and the Date converter, the fragment
\* 03-04-2019 at region (2,8,1,4), that is with the bbox (2,1,8,4), is
\* Resolved to date and stored as the date 2019-03-04 with no error entry.
C17_DateFieldScenario ==
    (/\ call.fn = "_parse_pdfobj"
     /\ call.raw = <<0, 100, 0, 50>>
     /\ call.pdfobj = [text |-> <<"0", "3", "-", "0", "4", "-",
                                  "2", "0", "1", "9">>,
                       bbox |-> <<20, 10, 80, 40>>])
    => /\ ret.branch = "Resolved"
       /\ "date" \in DOMAIN ret.data
       /\ ret.data.date = PyDate(2019, 3, 4)
       /\ "unparsed_data" \notin DOMAIN ret.data

\* The year the Date converter is to make of the year written: 0..99 are
\* years of the 1900s, 190..220 lack a digit, the others stand.
ExpectedYear(y) ==
    IF y \in 0..99 THEN y + 1900
    ELSE IF y \in 190..220 THEN y + 1800
    ELSE y

\* C18: for month/day/year the Date converter maps a year in 0..99 to
\* 1900 + year, a year in 190..220 to year + 1800 and leaves other
\* years; it fails when that year is below 1900, and every date it
\* returns has a year of 1900 or later.
C18_DateYearHeuristic ==
    call.fn = "Date.convert"
    => LET year == ExpectedYear(call.year)
           valid == /\ call.month \in 1..12
                    /\ call.day \in 1..DaysIn(year, call.month)
       IN  /\ year < 1900 => IsRaise(ret)
           /\ ~IsRaise(ret) => ret.value.date[1] >= 1900
           /\ (year >= 1900 /\ valid)
              => ret = Returns(PyDate(year, call.month, call.day))

\* C19: the Time converter returns the time of day HH hours MM minutes
\* for the spelling HH:MM and for the spelling HHMM alike.
C19_TimeBothSpellings ==
    (/\ call.fn = "Time.convert"
     /\ call.hours \in 0..23
     /\ call.minutes \in 0..59)
    => /\ ret.compact = Returns(PyTime(call.hours, call.minutes))
       /\ ret.colon = Returns(PyTime(call.hours, call.minutes))

\* C20: the file name of a case number gives back that case number, and
\* the case number of a file name made by the convention gives back that
\* file name.
C20_NamingRoundTrip ==
    call.fn = "case_no_to_filename"
    => /\ ret.case_no = call.case_no
       /\ ret.again = basename(ret.filename)

C24_BlankFragmentDiscarded ==
    [][(Handled /\ strip(get_text(last'.pdfobj)) = <<>>) =>
        /\ last'.branch = "discarded"
        /\ last'.signal = Returns(PyNone)
        /\ data' = data
        /\ layout' = layout
        /\ prompts' = prompts]_vars

\* C26: when the human picks a candidate of a fragment with several
\* candidates, the picked field's region afterwards holds (fuzz 0) its
\* region before and the fragment's region, the other fields of the
\* layout and the skip regions stay as they were, and the fragment is
\* resolved to the picked field.
C26_SelectionWidensField ==
    [][(Handled /\ interactive(pcls)
        /\ last'.branch = "MultipleCandidates") =>
        LET t == last'.page
            picked == FieldOf(last'.signal)
        IN  /\ picked \in Candidates(layout, t,
                                     CoordinatesOf(last'.pdfobj.bbox))
            /\ contains(layout'.objects[t][picked].coordinates,
                        layout.objects[t][picked].coordinates, 0)
            /\ contains(layout'.objects[t][picked].coordinates,
                        CoordinatesOf(last'.pdfobj.bbox), 0)
            /\ \A u \in PageTypes, f \in FieldNames :
                   (u # t \/ f # picked)
                   => layout'.objects[u][f] = layout.objects[u][f]
            /\ layout'.skip = layout.skip]_vars

\* C25: a fragment with text whose region lies (fuzz 0.1) in a skip
\* region of its page type is discarded before any field is looked for:
\* no value, no error, no prompt and no change of the layout, whether it
\* lies in no, one or several field regions; a skip region of another
\* page type changes nothing of what becomes of the fragment.
C25_SkipBeforeFields ==
    call.fn = "skip" =>
        LET coords == CoordinatesOf(call.pdfobj.bbox)
            skips == call.layout.skip[call.page]
            inskip == \E i \in DOMAIN skips :
                          Within(coords, Expanded(skips[i], Fuzz))
        IN  /\ inskip
               => /\ ret.with.branch = "discarded"
                  /\ ret.with.signal = Returns(PyNone)
                  /\ ret.with.layout = call.layout
                  /\ ~ret.with.asked
            /\ ~inskip => ret.with.branch # "discarded"
            /\ call.skip_page # call.page
               => /\ ret.with.branch = ret.without.branch
                  /\ ret.with.signal = ret.without.signal
                  /\ ret.with.asked = ret.without.asked
                  /\ ret.with.layout.objects = ret.without.layout.objects
                  /\ ret.with.layout.skip[call.page]
                     = ret.without.layout.skip[call.page]

\* C25 happens: a fragment inside two field regions of its page type and
\* inside a skip region of it has been discarded, with a parser that asks.
C25_Witness ==
    /\ call.fn = "skip"
    /\ call.asks
    /\ call.page = "report"
    /\ call.skip_page = "report"
    /\ Cardinality(Containing(call.layout, "report", call.pdfobj)) = 2
    /\ ret.with.branch = "discarded"
    /\ ret.without.branch = "MultipleCandidates"

\* C28: of two fragments resolved to the same field with a value, the
\* record holds the value of the second; a fragment whose converter gives
\* no value leaves the record as it was; and the unparsed_data of the
\* record has one entry per fragment that failed and none for a field
\* that was set twice.
C28_LastValueWins ==
    (call.fn = "_parse_pdf" /\ "second" \in DOMAIN call) =>
        LET s1 == ret.first.signal
            s2 == ret.second.signal
            d1 == ret.first.data
            d2 == ret.second.data
            failures == Cardinality({i \in 1..2 :
                            IsRaise(<<s1, s2>>[i])})
        IN  /\ (~IsRaise(s2) /\ s2.value # PyNone /\ s2.value.data # PyNone)
               => /\ s2.value.name \in DOMAIN d2
                  /\ d2[s2.value.name] = s2.value.data
            /\ (~IsRaise(s2) /\ (s2.value = PyNone \/ s2.value.data = PyNone))
               => d2 = d1
            /\ Len(unparsed_data(d2)) = failures

\* C28 happens: two fragments with different times were resolved to the
\* time field of the page, and one with a value was followed by one whose
\* converter gave none.
C28_Witness ==
    /\ call.fn = "_parse_pdf"
    /\ "second" \in DOMAIN call
    /\ ~IsRaise(ret.first.signal)
    /\ ~IsRaise(ret.second.signal)
    /\ ret.first.signal.value.name = "b"
    /\ ret.second.signal.value.name = "b"
    /\ ret.first.signal.value.data = PyTime(7, 30)
    /\ ret.second.signal.value.data = PyTime(12, 0)
    /\ ret.second.data.b = PyTime(12, 0)
    /\ unparsed_data(ret.second.data) = <<>>

\* C28 happens also for a fragment without a value: the time stored
\* first is still in the record.
C28_WitnessNone ==
    /\ call.fn = "_parse_pdf"
    /\ "second" \in DOMAIN call
    /\ ~IsRaise(ret.first.signal)
    /\ ~IsRaise(ret.second.signal)
    /\ ret.first.signal.value.data = PyTime(7, 30)
    /\ ret.second.signal.value = [name |-> "b", data |-> PyNone]
    /\ ret.second.data.b = PyTime(7, 30)

\* ------------------------------------------------------------ C22, C23
\* The steps of one call of _handle_results, from the with statement to
\* the last pass of its loop.
InCycle == opc \in {"tend_while", "drain", "final_drain"} /\ opc' \in {"drain", "final_drain"}

\* The step on which a call of _handle_results returns.
CycleEndsNormally ==
    opc \in {"drain", "final_drain"} /\ opc' \in {"check", "returned"}

\* C22: a call of _handle_results takes at most result_batch_size (30)
\* records from the result queue; no step inside the call changes what is
\* on disk; and the step on which the call returns writes every shard the
\* store had marked and leaves no shard marked.
C22_DrainCycleIsOneBatch ==
    [][/\ results' <= result_batch_size
       /\ InCycle => collisions'.files = collisions.files
       /\ CycleEndsNormally =>
              /\ collisions'.needs_write = {}
              /\ \A suffix \in collisions.needs_write :
                     /\ suffix \in DOMAIN collisions'.files
                     /\ collisions'.files[suffix]
                            = shard_data(collisions'.data)[suffix]]_vars

\* The first call of _handle_results has returned after it took
\* result_batch_size records, with more on the queue, and the store is on
\* disk as it is in memory.
C22_Witness ==
    /\ opc = "check"
    /\ interrupted = {}
    /\ Cardinality({p \in DOMAIN handed : handed[p] = 1}) = result_batch_size
    /\ result_queue # <<>>
    /\ collisions.needs_write = {}
    /\ collisions.files = shard_data(collisions.data)
    /\ Len(collisions.data) = result_batch_size

\* The positions of the store whose record is not on disk.
Unflushed ==
    {i \in DOMAIN collisions.data :
        LET suffix == get_shard(collisions.data[i])
        IN  \/ suffix \notin DOMAIN collisions.files
            \/ \A j \in DOMAIN collisions.files[suffix] :
                   collisions.files[suffix][j] # collisions.data[i]}

\* C23: in every state of a multi-worker run at most result_batch_size
\* (30) records of the store are not on disk.
C23_UnflushedAtMostOneBatch ==
    Cardinality(Unflushed) <= result_batch_size

\* ------------------------------------------------------------------ C27
\* The stored records of a store that say the document of case number
\* case_no has been parsed.
ParsedIn(store, case_no) ==
    \E i \in DOMAIN store.data :
        LET r == deserialize(store.data[i])
        IN  /\ r.case_no.str = case_no
            /\ "parsed" \in DOMAIN r
            /\ r.parsed = PyBool(TRUE)

\* C27: without file arguments and reparse flags the file list is the
\* files of the directory whose derived case number has no stored record
\* with parsed true; once the record of a parsed document is stored the
\* document is in no later file list, and the other files still are.
C27_Resumable ==
    call.fn = "_build_filelist" =>
        /\ ret.files = SelectSeq(call.listing,
                                 LAMBDA f : ~ParsedIn(call.store,
                                                      filename_to_case_no(f)))
        /\ ret.files # <<>> =>
               ret.next = Tail(ret.files)

\* A directory of three documents, one with a stored record that says
\* parsed, one with a record that does not, one without record.
C27_Witness ==
    /\ call.fn = "_build_filelist"
    /\ Len(call.listing) = 3
    /\ Len(ret.files) = 2
    /\ Len(call.store.data) = 2
    /\ ret.next = <<StateFile>>

\* ------------------------------------------------------------------ C29
\* C29: in a run with file arguments the store is in every state what it
\* was when the run started, in memory and on disk; in a run without,
\* every step on which _store_one_result has handled a record leaves that
\* record in the store under its case number.
C29_FileArgumentsNeverStored ==
    /\ [](options.files # <<>> =>
              /\ Records(collisions) = <<FetchedRecord(1)>>
              /\ collisions.files
                     = shard_data(<<serialize(FetchedRecord(1))>>)
              /\ collisions.needs_write = {})
    /\ [][options.files = <<>> /\ opc' = opc =>
              \A p \in DOMAIN handed :
                  handed'[p] # handed[p] =>
                      /\ exists(collisions', RecordOf(p).case_no.str)
                      /\ getitem(collisions', RecordOf(p).case_no.str)
                             = RecordOf(p)]_vars

\* A multi-worker run with file arguments has returned after it handled
\* the record of every file.
C29_Witness ==
    /\ options.files # <<>>
    /\ options.processes > 1
    /\ opc = "returned"
    /\ \A p \in DOMAIN handed : handed[p] = 1
    /\ Records(collisions) = <<FetchedRecord(1)>>

\* A foreground run without file arguments has handled the records of
\* all its files, and they are in the store.
C29_WitnessStored ==
    /\ options.files = <<>>
    /\ opc = "returned"
    /\ fidx > NumFiles
    /\ \A p \in DOMAIN handed :
           /\ handed[p] = 1
           /\ getitem(collisions, RecordOf(p).case_no.str) = RecordOf(p)

\* ------------------------------------------------------------------ C30
\* The case number of the record at a position of a store.
KeyAt(store, i) == store.data[i].case_no.str

\* C30: after every upsert of a sequence of upserts, inside or outside a
\* delayed write, no two records of the store have the same case number,
\* the index holds exactly the case numbers of the store, each with the
\* position of its record, a lookup by a case number that was upserted
\* gives the record upserted last under it, and an upsert of a case
\* number the store holds leaves every record but that one where and what
\* it was.
C30_KeyedStoreInvariant ==
    call.fn = "upsert" =>
        LET store == ret.store
            key == call.record.case_no.str
        IN  /\ \A i, j \in DOMAIN store.data :
                   KeyAt(store, i) = KeyAt(store, j) => i = j
            /\ DOMAIN store.by_key
                   = {KeyAt(store, i) : i \in DOMAIN store.data}
            /\ \A k \in DOMAIN store.by_key :
                   /\ store.by_key[k] \in DOMAIN store.data
                   /\ KeyAt(store, store.by_key[k]) = k
            /\ \A n \in DOMAIN call.history :
                   (\A m \in DOMAIN call.history :
                        m > n => call.history[m].case_no
                                     # call.history[n].case_no)
                   => getitem(store, call.history[n].case_no.str)
                          = call.history[n]
            /\ IF exists(call.before, key)
               THEN /\ Len(store.data) = Len(call.before.data)
                    /\ store.by_key = call.before.by_key
                    /\ \A i \in DOMAIN store.data :
                           i # store.by_key[key]
                           => store.data[i] = call.before.data[i]
               ELSE Len(store.data) = Len(call.before.data) + 1

\* Three upserts, the last of a case number the store held with another
\* record, inside a delayed write.
C30_Witness ==
    /\ call.fn = "upsert"
    /\ Len(call.history) = MaxUpserts
    /\ exists(call.before, call.record.case_no.str)
    /\ getitem(call.before, call.record.case_no.str) # call.record
    /\ ~call.before.sync
    /\ Len(ret.store.data) = 2

====
